---- MODULE Spec2Model ----
(***************************************************************************)
(* A model of the structure-aware three-way merge driver: the position     *)
(* tracked tokenizer, the bracket matcher, the line and block segmenters,  *)
(* the definition extractors of the two dialects, the semantic merge       *)
(* (smart_merge) and the merge driver (merge).                             *)
(*                                                                         *)
(* A text is a sequence of one-character strings.  Offsets are 0-based as  *)
(* in the source: offset i is element i + 1 of the sequence.               *)
(***************************************************************************)
EXTENDS Integers, Sequences, FiniteSets, TLC

(***************************************************************************)
(* Characters                                                              *)
(***************************************************************************)
NoChar == ""

At(buf, i) == IF i >= 0 /\ i < Len(buf) THEN buf[i + 1] ELSE NoChar

Slice(buf, i, j) == IF j <= i THEN << >> ELSE SubSeq(buf, i + 1, j)

LowerChars ==
    {"a", "b", "c", "d", "e", "f", "g", "h", "i", "j", "k", "l", "m",
     "n", "o", "p", "q", "r", "s", "t", "u", "v", "w", "x", "y", "z"}

UpperChars ==
    {"A", "B", "C", "D", "E", "F", "G", "H", "I", "J", "K", "L", "M",
     "N", "O", "P", "Q", "R", "S", "T", "U", "V", "W", "X", "Y", "Z"}

DigitChars == {"0", "1", "2", "3", "4", "5", "6", "7", "8", "9"}

\* \w of the regular expressions
WordChars == LowerChars \cup UpperChars \cup DigitChars \cup {"_"}

\* what str.strip() removes
SpaceChars == {" ", "\t", "\n", "\r", "\f"}

\* blank whatever the text holds
IsBlankAlways(s) == TRUE

IsBlank(s) == \A k \in 1..Len(s) : s[k] \in SpaceChars

\* str.upper() leaves the text unchanged
IsUpperInvariant(s) == \A k \in 1..Len(s) : s[k] \notin LowerChars

RECURSIVE SkipWhile(_, _, _)
SkipWhile(buf, i, set) ==
    IF i < Len(buf) /\ buf[i + 1] \in set THEN SkipWhile(buf, i + 1, set) ELSE i

RECURSIVE SkipUntil(_, _, _)
SkipUntil(buf, i, set) ==
    IF i < Len(buf) /\ buf[i + 1] \notin set THEN SkipUntil(buf, i + 1, set) ELSE i

\* Body(value), with the value computed once however often Body uses it
Bind(value, Body(_)) == CHOOSE r \in {Body(v) : v \in {value}} : TRUE

(***************************************************************************)
(* Position                                                                *)
(***************************************************************************)
Position(index, lineno, column) ==
    [index |-> index, lineno |-> lineno, column |-> column]

StartPosition == Position(0, 1, 0)

\* the column counted on as if the slice held no newline
advanced_on_one_line(pos, buf, i, j) ==
    Position(pos.index + (j - i),
             pos.lineno + Cardinality({k \in i..(j - 1) : At(buf, k) = "\n"}),
             pos.column + (j - i))

\* Position.advanced(buf, i, j), called with i < j
advanced(pos, buf, i, j) ==
    LET nlAt == {k \in i..(j - 1) : At(buf, k) = "\n"}
        nls == Cardinality(nlAt)
        k == j - i
    IN IF nls = 0
       THEN Position(pos.index + k, pos.lineno, pos.column + k)
       ELSE LET nl == CHOOSE m \in nlAt : \A o \in nlAt : o <= m
            IN Position(pos.index + k, pos.lineno + nls, j - (nl + 1))

\* Buffer.get_line_from_position(pos): the contents from the start of the
\* line of pos to the next newline, or to the end when there is none
get_line_from_position(buf, pos) ==
    LET line_start == pos.index - pos.column
        found == {k \in line_start..(Len(buf) - 1) : At(buf, k) = "\n"}
    IN IF found = {} THEN Slice(buf, line_start, Len(buf))
       ELSE Slice(buf, line_start, CHOOSE k \in found : \A o \in found : k <= o)

(***************************************************************************)
(* The lexers.  Each alternative of a pattern is an operator giving the    *)
(* offset where its match starting at offset i ends, or NoMatch.           *)
(***************************************************************************)
NoMatch == 0 - 1

AtLineStart(buf, i) == i = 0 \/ At(buf, i - 1) = "\n"

\* (?P<indent>^[ \t]+) under re.M
ReIndent(buf, i) ==
    IF AtLineStart(buf, i) /\ At(buf, i) \in {" ", "\t"}
    THEN SkipWhile(buf, i, {" ", "\t"})
    ELSE NoMatch

\* (?P<comment>\#.*)
ReComment(buf, i) ==
    IF At(buf, i) = "#" THEN SkipUntil(buf, i + 1, {"\n"}) ELSE NoMatch

\* (?P<newline>\n)
ReNewline(buf, i) == IF At(buf, i) = "\n" THEN i + 1 ELSE NoMatch

\* (?P<unimplemented_brackets>\#?\[=*\[)
CmReBrackets(buf, i) ==
    LET j == IF At(buf, i) = "#" THEN i + 1 ELSE i
    IN IF At(buf, j) = "["
       THEN LET k == SkipWhile(buf, j + 1, {"="})
            IN IF At(buf, k) = "[" THEN k + 1 ELSE NoMatch
       ELSE NoMatch

\* the body (?:[^\\"]|\\.)*" of the quoted alternative, from offset i
RECURSIVE CmQuotedBody(_, _)
CmQuotedBody(buf, i) ==
    LET c == At(buf, i)
    IN IF c = NoChar THEN NoMatch
       ELSE IF c = "\"" THEN i + 1
       ELSE IF c = "\\"
            THEN IF At(buf, i + 1) \in {NoChar, "\n"}
                 THEN NoMatch
                 ELSE CmQuotedBody(buf, i + 2)
       ELSE CmQuotedBody(buf, i + 1)

\* (?P<quoted>"(?:[^\\"]|\\.)*")
CmReQuoted(buf, i) ==
    IF At(buf, i) = "\"" THEN CmQuotedBody(buf, i + 1) ELSE NoMatch

CmNotUnquotedStart == {"#", "(", ")", ",", " ", "\t", "\r", "\n"}

CmNotUnquotedRest == CmNotUnquotedStart \cup {"$"}

\* the repetition (?:[^#$(), \t\r\n]|\\.|\$(?:\([^)]*\))?)* from offset i
RECURSIVE CmUnquotedRest(_, _)
CmUnquotedRest(buf, i) ==
    LET c == At(buf, i)
    IN IF c = NoChar THEN i
       ELSE IF c \notin CmNotUnquotedRest THEN CmUnquotedRest(buf, i + 1)
       ELSE IF c = "$"
            THEN IF At(buf, i + 1) = "("
                 THEN LET k == SkipUntil(buf, i + 2, {")"})
                      IN IF At(buf, k) = ")"
                         THEN CmUnquotedRest(buf, k + 1)
                         ELSE CmUnquotedRest(buf, i + 1)
                 ELSE CmUnquotedRest(buf, i + 1)
       ELSE i

\* (?P<unquoted>(?:[^#(), \t\r\n]|\\.)(?:...)*)
CmReUnquoted(buf, i) ==
    LET c == At(buf, i)
    IN IF c # NoChar /\ c \notin CmNotUnquotedStart
       THEN CmUnquotedRest(buf, i + 1)
       ELSE NoMatch

\* (?P<special>[()])
CmReSpecial(buf, i) == IF At(buf, i) \in {"(", ")"} THEN i + 1 ELSE NoMatch

Match(kind, end) == [kind |-> kind, end |-> end]

\* cmake_lexer: the first alternative that matches at offset i wins
cmake_lexer(buf, i) ==
    IF CmReBrackets(buf, i) # NoMatch
        THEN Match("unimplemented_brackets", CmReBrackets(buf, i))
    ELSE IF ReComment(buf, i) # NoMatch THEN Match("comment", ReComment(buf, i))
    ELSE IF CmReQuoted(buf, i) # NoMatch THEN Match("quoted", CmReQuoted(buf, i))
    ELSE IF CmReUnquoted(buf, i) # NoMatch
        THEN Match("unquoted", CmReUnquoted(buf, i))
    ELSE IF CmReSpecial(buf, i) # NoMatch THEN Match("special", CmReSpecial(buf, i))
    ELSE IF ReNewline(buf, i) # NoMatch THEN Match("newline", ReNewline(buf, i))
    ELSE IF ReIndent(buf, i) # NoMatch THEN Match("indent", ReIndent(buf, i))
    ELSE Match("none", NoMatch)

\* (?P<name>[\w][\w\d]*)
PyReName(buf, i) ==
    IF At(buf, i) \in WordChars THEN SkipWhile(buf, i, WordChars) ELSE NoMatch

\* (?P<number>[0-9]+)
PyReNumber(buf, i) ==
    IF At(buf, i) \in DigitChars THEN SkipWhile(buf, i, DigitChars) ELSE NoMatch

\* (?P<backslash>\\)
PyReBackslash(buf, i) == IF At(buf, i) = "\\" THEN i + 1 ELSE NoMatch

\* (?P<semicolon>;)
PyReSemicolon(buf, i) == IF At(buf, i) = ";" THEN i + 1 ELSE NoMatch

PyOpSingle ==
    {"]", "[", "(", ")", "{", "}", ",", "=", ":", "@", ".", "|", "%", "*",
     "/", "+", "^", "&", "~"}

\* (?P<op>-=|//=|//|[:!]=|<<|>>|\*\*|[=+*/%|<>^]=?|->|-|[][(){},=:@.|%*/+^&~])
PyReOp(buf, i) ==
    LET c == At(buf, i)
        d == At(buf, i + 1)
        e == At(buf, i + 2)
    IN IF c = "-" /\ d = "=" THEN i + 2
       ELSE IF c = "/" /\ d = "/" /\ e = "=" THEN i + 3
       ELSE IF c = "/" /\ d = "/" THEN i + 2
       ELSE IF c \in {":", "!"} /\ d = "=" THEN i + 2
       ELSE IF c = "<" /\ d = "<" THEN i + 2
       ELSE IF c = ">" /\ d = ">" THEN i + 2
       ELSE IF c = "*" /\ d = "*" THEN i + 2
       ELSE IF c \in {"=", "+", "*", "/", "%", "|", "<", ">", "^"}
            THEN IF d = "=" THEN i + 2 ELSE i + 1
       ELSE IF c = "-" /\ d = ">" THEN i + 2
       ELSE IF c = "-" THEN i + 1
       ELSE IF c \in PyOpSingle THEN i + 1
       ELSE NoMatch

\* the body (?:\\(?:.|\n)|[^\\q])*q of a single-quoted string, from offset i
RECURSIVE PyShortStringBody(_, _, _)
PyShortStringBody(buf, i, q) ==
    LET c == At(buf, i)
    IN IF c = NoChar THEN NoMatch
       ELSE IF c = q THEN i + 1
       ELSE IF c = "\\"
            THEN IF At(buf, i + 1) = NoChar
                 THEN NoMatch
                 ELSE PyShortStringBody(buf, i + 2, q)
       ELSE PyShortStringBody(buf, i + 1, q)

\* the body (?:\\(?:.|\n)|[^\\q]|q(?:[^q]|q[^q]))*qqq of a triple-quoted
\* string, from offset i
RECURSIVE PyLongStringBody(_, _, _)
PyLongStringBody(buf, i, q) ==
    LET c == At(buf, i)
        d == At(buf, i + 1)
        e == At(buf, i + 2)
    IN IF c = NoChar THEN NoMatch
       ELSE IF c = "\\"
            THEN IF d = NoChar THEN NoMatch ELSE PyLongStringBody(buf, i + 2, q)
       ELSE IF c # q THEN PyLongStringBody(buf, i + 1, q)
       ELSE IF d = NoChar THEN NoMatch
       ELSE IF d # q THEN PyLongStringBody(buf, i + 2, q)
       ELSE IF e = NoChar THEN NoMatch
       ELSE IF e # q THEN PyLongStringBody(buf, i + 3, q)
       ELSE i + 3

\* (?P<string> ...): a letter is taken by the name alternative before this
\* one is tried, so a match of the string alternative starts at its quote
PyReString(buf, i) ==
    LET c == At(buf, i)
        long(q) == IF c = q /\ At(buf, i + 1) = q /\ At(buf, i + 2) = q
                   THEN PyLongStringBody(buf, i + 3, q)
                   ELSE NoMatch
        short(q) == IF c = q THEN PyShortStringBody(buf, i + 1, q) ELSE NoMatch
    IN IF long("\"") # NoMatch THEN long("\"")
       ELSE IF long("'") # NoMatch THEN long("'")
       ELSE IF short("\"") # NoMatch THEN short("\"")
       ELSE short("'")

\* python_lexer: the first alternative that matches at offset i wins
python_lexer(buf, i) ==
    IF PyReName(buf, i) # NoMatch THEN Match("name", PyReName(buf, i))
    ELSE IF ReNewline(buf, i) # NoMatch THEN Match("newline", ReNewline(buf, i))
    ELSE IF ReIndent(buf, i) # NoMatch THEN Match("indent", ReIndent(buf, i))
    ELSE IF PyReNumber(buf, i) # NoMatch THEN Match("number", PyReNumber(buf, i))
    ELSE IF ReComment(buf, i) # NoMatch THEN Match("comment", ReComment(buf, i))
    ELSE IF PyReBackslash(buf, i) # NoMatch
        THEN Match("backslash", PyReBackslash(buf, i))
    ELSE IF PyReSemicolon(buf, i) # NoMatch
        THEN Match("semicolon", PyReSemicolon(buf, i))
    ELSE IF PyReOp(buf, i) # NoMatch THEN Match("op", PyReOp(buf, i))
    ELSE IF PyReString(buf, i) # NoMatch THEN Match("string", PyReString(buf, i))
    ELSE Match("none", NoMatch)

Pattern(dialect, buf, i) ==
    IF dialect = "cmake" THEN cmake_lexer(buf, i) ELSE python_lexer(buf, i)

(***************************************************************************)
(* The tokenizer                                                           *)
(***************************************************************************)
NoneKind == "None"

OptToken(kind, start, end) == [kind |-> kind, start |-> start, end |-> end]

TokText(buf, t) == Slice(buf, t.start.index, t.end.index)

\* re.finditer: the leftmost offset at or after p where the pattern matches,
\* or NoMatch
RECURSIVE NextMatchStart(_, _, _)
NextMatchStart(dialect, buf, p) ==
    IF p >= Len(buf) THEN NoMatch
    ELSE IF Pattern(dialect, buf, p).end # NoMatch THEN p
    ELSE NextMatchStart(dialect, buf, p + 1)

\* the loop of iter_opt_tokens_impl, at position pos
RECURSIVE IterOptTokensFrom(_, _, _)
IterOptTokensFrom(dialect, buf, pos) ==
    LET i == NextMatchStart(dialect, buf, pos.index)
    IN IF i = NoMatch
       THEN IF pos.index # Len(buf)
            THEN << OptToken(NoneKind, pos, advanced(pos, buf, pos.index, Len(buf))) >>
            ELSE << >>
       ELSE LET mo == Pattern(dialect, buf, i)
                gap == IF pos.index # i
                       THEN << OptToken(NoneKind, pos, advanced(pos, buf, pos.index, i)) >>
                       ELSE << >>
                pos1 == IF pos.index # i THEN gap[1].end ELSE pos
                tok == OptToken(mo.kind, pos1, advanced(pos1, buf, pos1.index, mo.end))
            IN gap \o << tok >> \o IterOptTokensFrom(dialect, buf, tok.end)

iter_opt_tokens_impl(dialect, buf) == IterOptTokensFrom(dialect, buf, StartPosition)

NoError == "none"

LexError == "unexpected data while lexing"

Stream(items, err) == [items |-> items, err |-> err]

\* unwrapped_non_blank: the tokens yielded before the first failure, and the
\* failure
RECURSIVE UnwrappedFrom(_, _, _)
UnwrappedFrom(buf, opt, k) ==
    IF k > Len(opt) THEN Stream(<< >>, NoError)
    ELSE LET t == opt[k]
         IN IF t.kind = NoneKind /\ IsBlank(TokText(buf, t))
            THEN UnwrappedFrom(buf, opt, k + 1)
            ELSE IF t.kind = NoneKind
            THEN Stream(<< >>, LexError)
            ELSE LET rest == UnwrappedFrom(buf, opt, k + 1)
                 IN Stream(<< t >> \o rest.items, rest.err)

unwrapped_non_blank(buf, opt) == UnwrappedFrom(buf, opt, 1)

iter_tokens(dialect, buf) == unwrapped_non_blank(buf, iter_opt_tokens_impl(dialect, buf))

(***************************************************************************)
(* The bracket matcher.  A stage of the parsing pipeline is modelled by    *)
(* the elements it yields before its first failure and that failure        *)
(* (NoError when it ends normally); the failure of an upstream generator   *)
(* surfaces when the element after its last one is asked for.              *)
(***************************************************************************)
NoUntil == << "None" >>

CmakeParens == [t \in {<< "(" >>, << "[" >>} |-> IF t = << "(" >> THEN << ")" >> ELSE << "]" >>]

PythonParens ==
    [t \in {<< "{" >>, << "[" >>, << "(" >>} |->
        IF t = << "{" >> THEN << "}" >>
        ELSE IF t = << "[" >> THEN << "]" >> ELSE << ")" >>]

Parens(d) == IF d = "cmake" THEN CmakeParens ELSE PythonParens

\* the round closer alone
ClosersRound(parens) == {<< ")" >>}

Closers(parens) == {parens[t] : t \in DOMAIN parens}

UnexpectedParen == "unexpected parenthesis"

\* f"incorrectly matched parentheses: expected '{until}'"
IncorrectlyMatched(until) ==
    IF until = << ")" >> THEN "incorrectly matched parentheses: expected ')'"
    ELSE IF until = << "]" >> THEN "incorrectly matched parentheses: expected ']'"
    ELSE "incorrectly matched parentheses: expected '}'"

\* tokens: what the generator of the group yields (its closer last, when the
\* group is closed); err: the failure met while the group is consumed
IterParenthesized(left, tokens, err) ==
    [kind |-> "iterparenthesized", left |-> left, tokens |-> tokens, err |-> err]

IsToken(e) == e.kind \notin {"iterparenthesized", "parenthesized", "line", "block", "none"}

\* iter_match_parens(tokens, parens, until) reading toks from element k on;
\* next is the first element it has not consumed
RECURSIVE IterMatchFrom(_, _, _, _, _)
IterMatchFrom(buf, toks, k, parens, until) ==
    IF k > Len(toks.items)
    THEN [items |-> << >>, next |-> k, err |-> toks.err]
    ELSE LET tok == toks.items[k]
             text == TokText(buf, tok)
         IN IF text = until
            THEN [items |-> << tok >>, next |-> k + 1, err |-> NoError]
            ELSE IF text \in DOMAIN parens
            THEN LET it == IterMatchFrom(buf, toks, k + 1, parens, parens[text])
                     ip == IterParenthesized(tok, it.items, it.err)
                 IN IF it.err # NoError
                    THEN [items |-> << ip >>, next |-> it.next, err |-> it.err]
                    ELSE LET rest == IterMatchFrom(buf, toks, it.next, parens, until)
                         IN [items |-> << ip >> \o rest.items, next |-> rest.next,
                             err |-> rest.err]
            ELSE IF text \in Closers(parens)
            THEN [items |-> << >>, next |-> k,
                  err |-> IF until # NoUntil THEN IncorrectlyMatched(until)
                          ELSE UnexpectedParen]
            ELSE LET rest == IterMatchFrom(buf, toks, k + 1, parens, until)
                 IN [items |-> << tok >> \o rest.items, next |-> rest.next,
                     err |-> rest.err]

iter_match_parens(buf, toks, parens) ==
    LET r == IterMatchFrom(buf, toks, 1, parens, NoUntil)
    IN Stream(r.items, r.err)

Parenthesized(left, tokens, right) ==
    [kind |-> "parenthesized", left |-> left, tokens |-> tokens, right |-> right]

BugNoTokens == "BUG: no tokens?"

AssertionError == "AssertionError"

Front(s) == SubSeq(s, 1, Len(s) - 1)

Last(s) == s[Len(s)]

\* IterParenthesized.collect(): [val, err]
RECURSIVE Collect(_)
RECURSIVE CollectAll(_, _)
CollectAll(items, k) ==
    IF k > Len(items) THEN [val |-> << >>, err |-> NoError]
    ELSE LET t == items[k]
             c == IF t.kind = "iterparenthesized" THEN Collect(t)
                  ELSE [val |-> t, err |-> NoError]
         IN IF c.err # NoError THEN [val |-> << >>, err |-> c.err]
            ELSE LET rest == CollectAll(items, k + 1)
                 IN [val |-> << c.val >> \o rest.val, err |-> rest.err]

Collect(ip) ==
    LET all == CollectAll(ip.tokens, 1)
    IN IF all.err # NoError THEN [val |-> ip, err |-> all.err]
       ELSE IF ip.err # NoError THEN [val |-> ip, err |-> ip.err]
       ELSE IF Len(all.val) = 0 THEN [val |-> ip, err |-> BugNoTokens]
       ELSE IF ~IsToken(Last(all.val)) THEN [val |-> ip, err |-> AssertionError]
       ELSE [val |-> Parenthesized(ip.left, Front(all.val), Last(all.val)),
             err |-> NoError]

\* match_parens: every yielded group is collected
RECURSIVE MatchParensFrom(_, _)
MatchParensFrom(s, k) ==
    IF k > Len(s.items) THEN Stream(<< >>, s.err)
    ELSE LET t == s.items[k]
             c == IF t.kind = "iterparenthesized" THEN Collect(t)
                  ELSE [val |-> t, err |-> NoError]
         IN IF c.err # NoError THEN Stream(<< >>, c.err)
            ELSE LET rest == MatchParensFrom(s, k + 1)
                 IN Stream(<< c.val >> \o rest.items, rest.err)

match_parens(buf, toks, parens) == MatchParensFrom(iter_match_parens(buf, toks, parens), 1)

(***************************************************************************)
(* Lines                                                                   *)
(***************************************************************************)
NoToken == [kind |-> "none"]

\* the Line of the flat dialect (no colon field) and of the indented dialect
Line(tokens, indent, colon, newline, first_non_blank) ==
    [kind |-> "line", tokens |-> tokens, indent |-> indent, colon |-> colon,
     newline |-> newline, first_non_blank |-> first_non_blank]

\* the state of a line segmenter between two elements of its input
LineState(line, got_indent, got_colon, got_backslash, first_non_blank) ==
    [line |-> line, got_indent |-> got_indent, got_colon |-> got_colon,
     got_backslash |-> got_backslash, first_non_blank |-> first_non_blank]

EmptyLineState == LineState(<< >>, NoToken, NoToken, NoToken, NoToken)

\* identify_cmake_lines from element k on, in state st
RECURSIVE CmakeLinesFrom(_, _, _)
CmakeLinesFrom(s, k, st) ==
    IF k > Len(s.items)
    THEN IF s.err # NoError THEN Stream(<< >>, s.err)
         ELSE IF Len(st.line) > 0
         THEN Stream(<< Line(st.line, st.got_indent, NoToken, NoToken,
                             st.first_non_blank) >>, NoError)
         ELSE Stream(<< >>, NoError)
    ELSE LET e == s.items[k]
             c == IF e.kind = "iterparenthesized" THEN Collect(e)
                  ELSE [val |-> e, err |-> NoError]
             tok == c.val
         IN IF c.err # NoError THEN Stream(<< >>, c.err)
            ELSE IF tok.kind = "indent"
            THEN IF Len(st.line) > 0 \/ st.got_indent.kind # "none"
                    \/ st.first_non_blank.kind # "none"
                 THEN Stream(<< >>, AssertionError)
                 ELSE CmakeLinesFrom(s, k + 1,
                        [st EXCEPT !.got_indent = tok, !.line = << tok >>])
            ELSE IF tok.kind = "newline"
            THEN LET rest == CmakeLinesFrom(s, k + 1, EmptyLineState)
                 IN Stream(<< Line(Append(st.line, tok), st.got_indent, NoToken,
                                   tok, st.first_non_blank) >> \o rest.items,
                           rest.err)
            ELSE IF tok.kind = "comment"
            THEN CmakeLinesFrom(s, k + 1, [st EXCEPT !.line = Append(@, tok)])
            ELSE LET fnb == IF st.first_non_blank.kind # "none"
                            THEN st.first_non_blank
                            ELSE IF tok.kind = "parenthesized" THEN tok.left
                            ELSE tok
                 IN CmakeLinesFrom(s, k + 1,
                        [st EXCEPT !.line = Append(@, tok), !.first_non_blank = fnb])

identify_cmake_lines(s) == CmakeLinesFrom(s, 1, EmptyLineState)

\* the start and the end of a Token, Parenthesized, Line or Block;
\* an IterParenthesized has a start and no end
RECURSIVE StartOf(_)
StartOf(e) ==
    IF e.kind \in {"parenthesized", "iterparenthesized"} THEN e.left.start
    ELSE IF e.kind \in {"line", "block"} THEN StartOf(e.tokens[1])
    ELSE e.start

HasNoEnd == "AttributeError: 'IterParenthesized' object has no attribute 'end'"

RECURSIVE EndOf(_)
EndOf(e) ==
    IF e.kind = "parenthesized" THEN [val |-> e.right.end, err |-> NoError]
    ELSE IF e.kind = "iterparenthesized" THEN [val |-> StartPosition, err |-> HasNoEnd]
    ELSE IF e.kind \in {"line", "block"} THEN EndOf(Last(e.tokens))
    ELSE [val |-> e.end, err |-> NoError]

(***************************************************************************)
(* The definition extractor of the flat dialect                            *)
(***************************************************************************)
\* the test of get_grouped_args for a token that starts a new group
IsGroupKey(text) ==
    /\ ~IsBlank(text)
    /\ IsUpperInvariant(text)
    /\ text[1] # "\""

\* get_grouped_args: the groups in the order of the dict (the unnamed group,
\* then the keys in the order of their first occurrence, the groups of one
\* key together), each group the sequence of its argument tokens
RECURSIVE GroupedFrom(_, _, _, _, _)
GroupedFrom(buf, args, k, keys, groups) ==
    \* keys: the key texts, "" first; groups: per key, the sequence of its
    \* groups; the current group is the last group of the last key used
    IF k > Len(args) THEN [keys |-> keys, groups |-> groups.g, err |-> NoError]
    ELSE LET a == args[k]
         IN IF ~IsToken(a) THEN [keys |-> keys, groups |-> groups.g, err |-> AssertionError]
            ELSE LET text == TokText(buf, a)
                 IN IF IsGroupKey(text)
                    THEN LET known == \E n \in 1..Len(keys) : keys[n] = text
                             keys1 == IF known THEN keys ELSE Append(keys, text)
                             n == CHOOSE m \in 1..Len(keys1) : keys1[m] = text
                             g1 == IF known
                                   THEN [groups.g EXCEPT ![n] = Append(@, << >>)]
                                   ELSE Append(groups.g, << << >> >>)
                         IN GroupedFrom(buf, args, k + 1, keys1,
                                        [g |-> g1, cur |-> n])
                    ELSE LET n == groups.cur
                             m == Len(groups.g[n])
                         IN GroupedFrom(buf, args, k + 1, keys,
                              [g |-> [groups.g EXCEPT ![n][m] = Append(@, a)],
                               cur |-> n])

get_grouped_args(buf, args) ==
    GroupedFrom(buf, args, 1, << << >> >>, [g |-> << << << >> >> >>, cur |-> 1])

\* next((k, v) for k in args for g in args[k] for v in g.args): the values
\* in the order of that iteration
RECURSIVE Flatten(_)
Flatten(ss) == IF Len(ss) = 0 THEN << >> ELSE ss[1] \o Flatten(Tail(ss))

GroupedValues(grouped) == Flatten([n \in 1..Len(grouped.groups) |-> Flatten(grouped.groups[n])])

StopIteration == "StopIteration"

NoDefinition == [found |-> FALSE, name |-> << >>, err |-> NoError]

\* parse_line_as_definition: the third component of its result
parse_line_as_definition(buf, line) ==
    LET tok == line.first_non_blank
    IN IF tok.kind = "unquoted"
       THEN LET at == {i \in 1..Len(line.tokens) : line.tokens[i] = tok}
            IN IF at = {} THEN [NoDefinition EXCEPT !.err = StopIteration]
               ELSE LET i == CHOOSE m \in at : \A o \in at : m <= o
                    IN IF i + 1 <= Len(line.tokens)
                          /\ line.tokens[i + 1].kind = "parenthesized"
                       THEN LET args == get_grouped_args(buf, line.tokens[i + 1].tokens)
                                vals == GroupedValues(args)
                            IN IF args.err # NoError
                               THEN [NoDefinition EXCEPT !.err = args.err]
                               ELSE IF Len(vals) = 0 THEN NoDefinition
                               ELSE [found |-> TRUE, name |-> TokText(buf, vals[1]),
                                     err |-> NoError]
                       ELSE NoDefinition
       ELSE NoDefinition

Definition(name, text) == [name |-> name, text |-> text]

\* the loop of identify_definitions over the lines
RECURSIVE CmakeDefinitionsFrom(_, _, _)
CmakeDefinitionsFrom(buf, lines, k) ==
    IF k > Len(lines.items) THEN Stream(<< >>, lines.err)
    ELSE LET line == lines.items[k]
             start == StartOf(line)
             end == EndOf(line)
             defn == parse_line_as_definition(buf, line)
         IN IF start.column # 0 THEN Stream(<< >>, AssertionError)
            ELSE IF defn.err # NoError THEN Stream(<< >>, defn.err)
            ELSE LET rest == CmakeDefinitionsFrom(buf, lines, k + 1)
                     d == Definition(IF defn.found THEN defn.name ELSE << >>,
                                     Slice(buf, start.index, end.val.index))
                 IN Stream(<< d >> \o rest.items, rest.err)

identify_definitions(buf) ==
    Bind(iter_tokens("cmake", buf), LAMBDA lexer_output :
    Bind(iter_match_parens(buf, lexer_output, CmakeParens), LAMBDA matched_parens :
    Bind(identify_cmake_lines(matched_parens), LAMBDA lines :
        CmakeDefinitionsFrom(buf, lines, 1))))

(***************************************************************************)
(* The indented dialect: lines, blocks, cleanup                            *)
(***************************************************************************)
ExpectedNewline == "expected newline after backslash"

EOFAfterBackslash == "unexpected EOF after backslash"

\* got_backslash after a real token was appended
GotBackslashNever(tok) == NoToken

GotBackslash(tok) == IF tok.kind = "backslash" THEN tok ELSE NoToken

\* got_colon as if every real token were a colon
GotColonAny(buf, tok) == IF IsToken(tok) /\ tok.kind # "backslash" THEN tok ELSE NoToken

\* got_colon after a real token was appended
GotColon(buf, tok) ==
    IF IsToken(tok) /\ tok.kind # "backslash" /\ TokText(buf, tok) = << ":" >>
    THEN tok ELSE NoToken

\* identify_python_lines from element k on, in state st
RECURSIVE PythonLinesFrom(_, _, _, _)
PythonLinesFrom(buf, s, k, st) ==
    IF k > Len(s.items)
    THEN IF s.err # NoError THEN Stream(<< >>, s.err)
         ELSE IF st.got_backslash.kind # "none" THEN Stream(<< >>, EOFAfterBackslash)
         ELSE IF Len(st.line) > 0
         THEN Stream(<< Line(st.line, st.got_indent, st.got_colon, NoToken,
                             st.first_non_blank) >>, NoError)
         ELSE Stream(<< >>, NoError)
    ELSE LET tok == s.items[k]
             \* "Got a real token"
             real(st1) ==
                 IF st1.got_backslash.kind # "none"
                 THEN Stream(<< >>, ExpectedNewline)
                 ELSE PythonLinesFrom(buf, s, k + 1,
                        [st1 EXCEPT
                           !.line = Append(@, tok),
                           !.got_backslash =
                               IF tok.kind = "backslash" THEN tok ELSE NoToken,
                           !.got_colon =
                               IF IsToken(tok) /\ tok.kind # "backslash"
                                  /\ TokText(buf, tok) = << ":" >>
                               THEN tok ELSE NoToken])
         IN IF tok.kind = "indent"
            THEN IF Len(st.line) > 0
                 THEN PythonLinesFrom(buf, s, k + 1, st)
                 ELSE real([st EXCEPT !.got_indent = tok])
            ELSE IF tok.kind = "newline"
            THEN IF st.got_backslash.kind = "none"
                 THEN LET rest == PythonLinesFrom(buf, s, k + 1, EmptyLineState)
                      IN Stream(<< Line(Append(st.line, tok), st.got_indent,
                                        st.got_colon, tok, st.first_non_blank) >>
                                \o rest.items, rest.err)
                 ELSE PythonLinesFrom(buf, s, k + 1,
                        [st EXCEPT !.line = Append(@, tok), !.got_backslash = NoToken])
            ELSE IF tok.kind = "comment"
            THEN PythonLinesFrom(buf, s, k + 1, [st EXCEPT !.line = Append(@, tok)])
            ELSE IF st.first_non_blank.kind # "none"
            THEN real(st)
            ELSE IF IsToken(tok) THEN real([st EXCEPT !.first_non_blank = tok])
            ELSE IF tok.kind = "parenthesized"
            THEN real([st EXCEPT !.first_non_blank = tok.left])
            ELSE real(st)

identify_python_lines(buf, s) == PythonLinesFrom(buf, s, 1, EmptyLineState)

\* a Block keyed by no indent text
BlockUnkeyed(indent, tokens) == [kind |-> "block", indent |-> << >>, tokens |-> tokens]

Block(indent, tokens) == [kind |-> "block", indent |-> indent, tokens |-> tokens]

ExpectedIndent == "expected indent"

UnexpectedIndent == "unexpected indent"

ExpectedIndentAtEOF == "expected indent after colon at eof"

\* an if in the place of the while: at most one Block is popped
PopBlocksOnce(stack, n) ==
    IF Len(stack) > 0 /\ n < Len(Last(stack).indent)
    THEN IF Len(stack) > 1
         THEN [stack |-> [Front(stack) EXCEPT ![Len(stack) - 1].tokens = Append(@, Last(stack))],
               out |-> << >>]
         ELSE [stack |-> << >>, out |-> << Last(stack) >>]
    ELSE [stack |-> stack, out |-> << >>]

\* t = indent_stack.pop(), attached to the new top or yielded, while the
\* top of the stack is indented deeper than n; with n < 0: until it is empty
RECURSIVE PopBlocks(_, _)
PopBlocks(stack, n) ==
    IF Len(stack) > 0 /\ n < Len(Last(stack).indent)
    THEN LET t == Last(stack)
             below == Front(stack)
         IN IF Len(below) > 0
            THEN PopBlocks([below EXCEPT ![Len(below)].tokens = Append(@, t)], n)
            ELSE [stack |-> below, out |-> << t >>]
    ELSE [stack |-> stack, out |-> << >>]

IndentText(buf, line) ==
    IF line.indent.kind # "none" THEN TokText(buf, line.indent) ELSE << >>

\* the depth of the top level whatever is open
TopIndentOuter(stack) == 0

\* current_indent: the indent length of the innermost open Block
TopIndent(stack) == IF Len(stack) > 0 THEN Len(Last(stack).indent) ELSE 0

\* identify_python_blocks from line k on
RECURSIVE PythonBlocksFrom(_, _, _, _, _)
PythonBlocksFrom(buf, lines, k, indent_stack, expect_indent) ==
    IF k > Len(lines.items)
    THEN IF lines.err # NoError THEN Stream(<< >>, lines.err)
         ELSE IF expect_indent.kind # "none" THEN Stream(<< >>, ExpectedIndentAtEOF)
         ELSE Stream(PopBlocks(indent_stack, 0 - 1).out, NoError)
    ELSE LET line == lines.items[k]
             attach(stack, out, expect) ==
                 IF Len(stack) > 0
                 THEN LET rest == PythonBlocksFrom(buf, lines, k + 1,
                                    [stack EXCEPT ![Len(stack)].tokens = Append(@, line)],
                                    expect)
                      IN Stream(out \o rest.items, rest.err)
                 ELSE LET rest == PythonBlocksFrom(buf, lines, k + 1, stack, expect)
                      IN Stream(out \o << line >> \o rest.items, rest.err)
         IN IF line.first_non_blank.kind # "none"
            THEN LET current_indent == TopIndent(indent_stack)
                     indent_text == IndentText(buf, line)
                 IN IF expect_indent.kind # "none"
                    THEN IF Len(indent_text) <= current_indent
                         THEN Stream(<< >>, ExpectedIndent)
                         ELSE attach(Append(indent_stack, Block(indent_text, << >>)),
                                     << >>, line.colon)
                    ELSE IF Len(indent_text) > current_indent
                         THEN Stream(<< >>, UnexpectedIndent)
                         ELSE LET p == PopBlocks(indent_stack, Len(indent_text))
                              IN IF Len(indent_text) > TopIndent(p.stack)
                                 THEN Stream(p.out, UnexpectedIndent)
                                 ELSE attach(p.stack, p.out, line.colon)
            ELSE attach(indent_stack, << >>, expect_indent)

identify_python_blocks(buf, lines) == PythonBlocksFrom(buf, lines, 1, << >>, NoToken)

\* flatten: the Tokens of Tokens, groups, Lines and Blocks, in order
RECURSIVE flatten(_)
flatten(tokens) ==
    IF Len(tokens) = 0 THEN << >>
    ELSE LET tok == tokens[1]
         IN (IF tok.kind = "parenthesized"
             THEN << tok.left >> \o flatten(tok.tokens) \o << tok.right >>
             ELSE IF tok.kind \in {"line", "block"} THEN flatten(tok.tokens)
             ELSE << tok >>)
            \o flatten(Tail(tokens))

\* scrape_end: the index after which the lines of a block are moved out
RECURSIVE ScrapeFrom(_, _, _, _)
ScrapeFrom(buf, lines, indent, i) ==
    IF i > 0
       /\ lines[i].kind = "line"
       /\ lines[i].first_non_blank.kind = "none"
       /\ ~(lines[i].indent.kind # "none"
            /\ Len(TokText(buf, lines[i].indent)) >= Len(indent))
    THEN ScrapeFrom(buf, lines, indent, i - 1)
    ELSE i

\* del lines[i:] without the lines it returns
scrape_end_dropped(buf, lines, indent) ==
    [kept |-> SubSeq(lines, 1, ScrapeFrom(buf, lines, indent, Len(lines))), moved |-> << >>]

scrape_end(buf, lines, indent) ==
    LET i == ScrapeFrom(buf, lines, indent, Len(lines))
    IN [kept |-> SubSeq(lines, 1, i), moved |-> SubSeq(lines, i + 1, Len(lines))]

\* a pass that scrapes the Blocks of the list and visits none
RECURSIVE FixupVisitOuter(_, _)
FixupVisitOuter(buf, lines) ==
    IF Len(lines) = 0 THEN << >>
    ELSE IF lines[1].kind = "block"
    THEN << Block(lines[1].indent, scrape_end(buf, lines[1].tokens, lines[1].indent).kept) >>
         \o scrape_end(buf, lines[1].tokens, lines[1].indent).moved
         \o FixupVisitOuter(buf, Tail(lines))
    ELSE << lines[1] >> \o FixupVisitOuter(buf, Tail(lines))

\* visit of fixup_end_of_block: the list after the pass
RECURSIVE FixupVisit(_, _)
FixupVisit(buf, lines) ==
    IF Len(lines) = 0 THEN << >>
    ELSE LET c == lines[1]
         IN IF c.kind = "block"
            THEN LET r == scrape_end(buf, FixupVisit(buf, c.tokens), c.indent)
                 IN << Block(c.indent, r.kept) >> \o r.moved \o FixupVisit(buf, Tail(lines))
            ELSE << c >> \o FixupVisit(buf, Tail(lines))

fixup_end_of_block(buf, lines) == FixupVisit(buf, lines)

(***************************************************************************)
(* The definition extractor of the indented dialect                        *)
(***************************************************************************)
\* (tok.text or "")
TextOrEmpty(buf, e) == IF IsToken(e) THEN TokText(buf, e) ELSE << >>

StartsWithHash(text) == Len(text) > 0 /\ text[1] = "#"

\* first_non_blank of a Line (its field) or a Block (its property)
RECURSIVE FirstNonBlank(_)
RECURSIVE FirstNonBlankOf(_, _)
FirstNonBlankOf(tokens, k) ==
    IF k > Len(tokens) THEN NoToken
    ELSE LET b == FirstNonBlank(tokens[k])
         IN IF b.kind # "none" THEN b ELSE FirstNonBlankOf(tokens, k + 1)

FirstNonBlank(e) ==
    IF e.kind = "block" THEN FirstNonBlankOf(e.tokens, 1) ELSE e.first_non_blank

\* is_pre that takes decorators only, no comment
is_pre_decorator(buf, b) ==
    IF b.kind # "line" THEN FALSE
    ELSE IF b.first_non_blank.kind # "none"
         THEN TokText(buf, b.first_non_blank) = << "@" >>
    ELSE FALSE

is_pre(buf, b) ==
    IF b.kind # "line" THEN FALSE
    ELSE IF b.first_non_blank.kind # "none"
         THEN TokText(buf, b.first_non_blank) = << "@" >>
    ELSE IF b.indent.kind # "none" THEN FALSE
    ELSE IF Len(b.tokens) = 0 THEN FALSE
    ELSE StartsWithHash(TextOrEmpty(buf, b.tokens[1]))

\* is_post that takes Blocks only, no line
is_post_block(buf, b) == b.kind = "block"

is_post(buf, b) ==
    IF b.kind = "block" THEN TRUE
    ELSE IF b.first_non_blank.kind # "none" THEN FALSE
    ELSE IF b.indent.kind # "none" THEN TRUE
    ELSE IF Len(b.tokens) = 0 THEN TRUE
    ELSE ~StartsWithHash(TextOrEmpty(buf, b.tokens[1]))

RECURSIVE SkipPre(_, _, _)
SkipPre(buf, blocks, i) ==
    IF i <= Len(blocks) /\ is_pre(buf, blocks[i]) THEN SkipPre(buf, blocks, i + 1) ELSE i

RECURSIVE SkipPost(_, _, _)
SkipPost(buf, blocks, i) ==
    IF i <= Len(blocks) /\ is_post(buf, blocks[i]) THEN SkipPost(buf, blocks, i + 1) ELSE i

IndexError == "IndexError"

DefKeyword == << "d", "e", "f" >>

\* one round of the outer loop of identify_function_definitions, from the
\* (1-based) element j on: the Definition it appends, the element the next
\* round starts at, or the failure
ExtractRound(buf, blocks, j) ==
    LET i == SkipPre(buf, blocks, j)
        fail(e) == [def |-> Definition(<< >>, << >>), next |-> j, err |-> e]
    IN IF i > Len(blocks) THEN fail(IndexError)
       ELSE LET first_line == blocks[i]
                next == SkipPost(buf, blocks, i + 1)
                end == EndOf(blocks[next - 1])
                full_text == Slice(buf, StartOf(blocks[j]).index, end.val.index)
                t == FirstNonBlank(first_line)
            IN IF end.err # NoError THEN fail(end.err)
               ELSE IF t.kind # "none" /\ TokText(buf, t) = DefKeyword
               THEN IF first_line.kind # "line" THEN fail(AssertionError)
                    ELSE IF Len(first_line.tokens) < 2 THEN fail(IndexError)
                    ELSE IF ~IsToken(first_line.tokens[2]) THEN fail(AssertionError)
                    ELSE [def |-> Definition(TokText(buf, first_line.tokens[2]), full_text),
                          next |-> next, err |-> NoError]
               ELSE [def |-> Definition(<< >>, full_text), next |-> next,
                     err |-> NoError]

RECURSIVE PythonDefinitionsFrom(_, _, _)
PythonDefinitionsFrom(buf, blocks, j) ==
    IF j > Len(blocks) THEN Stream(<< >>, NoError)
    ELSE LET r == ExtractRound(buf, blocks, j)
         IN IF r.err # NoError THEN Stream(<< >>, r.err)
            ELSE LET rest == PythonDefinitionsFrom(buf, blocks, r.next)
                 IN Stream(<< r.def >> \o rest.items, rest.err)

identify_function_definitions(buf) ==
    Bind(iter_tokens("python", buf), LAMBDA lexer_output :
    Bind(iter_match_parens(buf, lexer_output, PythonParens), LAMBDA matched_parens :
    Bind(identify_python_lines(buf, matched_parens), LAMBDA lines :
    Bind(identify_python_blocks(buf, lines), LAMBDA blocks :
        IF blocks.err # NoError THEN Stream(<< >>, blocks.err)
        ELSE Bind(fixup_end_of_block(buf, blocks.items), LAMBDA fixed :
                 PythonDefinitionsFrom(buf, fixed, 1))))))

(***************************************************************************)
(* difflib.SequenceMatcher(a, b).get_opcodes() as smart_merge uses it.     *)
(* No element is junk, and the automatic junk heuristic needs 200 or more  *)
(* elements in b, which the bounds of the model never reach.  a and b are  *)
(* sequences; the indices of blocks and opcodes are 0-based and half-open  *)
(* as in difflib.                                                          *)
(***************************************************************************)
\* the length of the longest common run that ends at a[i], b[j] and stays
\* inside [alo, ..) x [blo, ..): newj2len[j] of find_longest_match
RECURSIVE RunLength(_, _, _, _, _, _)
RunLength(a, b, alo, blo, i, j) ==
    IF i < alo \/ j < blo \/ a[i + 1] # b[j + 1] THEN 0
    ELSE 1 + RunLength(a, b, alo, blo, i - 1, j - 1)

\* find_longest_match(alo, ahi, blo, bhi): the longest block, of those the
\* one that starts earliest in a, of those the one that starts earliest in b
find_longest_match(a, b, alo, ahi, blo, bhi) ==
    LET len(e) == RunLength(a, b, alo, blo, e[1], e[2])
    IN Bind({e \in (alo..(ahi - 1)) \X (blo..(bhi - 1)) : a[e[1] + 1] = b[e[2] + 1]},
            LAMBDA ends :
        IF ends = {} THEN [i |-> alo, j |-> blo, k |-> 0]
        ELSE Bind(CHOOSE e \in ends :
                      \A o \in ends :
                          \/ len(o) < len(e)
                          \/ /\ len(o) = len(e)
                             /\ \/ e[1] < o[1]
                                \/ e[1] = o[1] /\ e[2] <= o[2],
                  LAMBDA best :
                      [i |-> best[1] - len(best) + 1, j |-> best[2] - len(best) + 1,
                       k |-> len(best)]))

\* the blocks get_matching_blocks finds in a[alo:ahi], b[blo:bhi], sorted
RECURSIVE MatchingBlocksIn(_, _, _, _, _, _)
MatchingBlocksIn(a, b, alo, ahi, blo, bhi) ==
    Bind(find_longest_match(a, b, alo, ahi, blo, bhi), LAMBDA x :
        IF x.k = 0 THEN << >>
        ELSE (IF alo < x.i /\ blo < x.j
              THEN MatchingBlocksIn(a, b, alo, x.i, blo, x.j) ELSE << >>)
             \o << x >>
             \o (IF x.i + x.k < ahi /\ x.j + x.k < bhi
                 THEN MatchingBlocksIn(a, b, x.i + x.k, ahi, x.j + x.k, bhi) ELSE << >>))

\* the pass of get_matching_blocks that joins adjacent blocks
RECURSIVE CollapseBlocks(_, _, _)
CollapseBlocks(blocks, n, current_block) ==
    Bind(current_block, LAMBDA cur :
    IF n > Len(blocks) THEN IF cur.k # 0 THEN << cur >> ELSE << >>
    ELSE LET x == blocks[n]
         IN IF cur.i + cur.k = x.i /\ cur.j + cur.k = x.j
            THEN CollapseBlocks(blocks, n + 1, [cur EXCEPT !.k = @ + x.k])
            ELSE (IF cur.k # 0 THEN << cur >> ELSE << >>)
                 \o CollapseBlocks(blocks, n + 1, x))

get_matching_blocks(a, b) ==
    Bind(MatchingBlocksIn(a, b, 0, Len(a), 0, Len(b)), LAMBDA blocks :
        CollapseBlocks(blocks, 1, [i |-> 0, j |-> 0, k |-> 0])
        \o << [i |-> Len(a), j |-> Len(b), k |-> 0] >>)

Opcode(tag, i1, i2, j1, j2) == [tag |-> tag, i1 |-> i1, i2 |-> i2, j1 |-> j1, j2 |-> j2]

RECURSIVE OpcodesFrom(_, _, _, _)
OpcodesFrom(blocks, n, i, j) ==
    IF n > Len(blocks) THEN << >>
    ELSE LET x == blocks[n]
             tag == IF i < x.i /\ j < x.j THEN "replace"
                    ELSE IF i < x.i THEN "delete"
                    ELSE IF j < x.j THEN "insert"
                    ELSE ""
         IN (IF tag # "" THEN << Opcode(tag, i, x.i, j, x.j) >> ELSE << >>)
            \o (IF x.k # 0
                THEN << Opcode("equal", x.i, x.i + x.k, x.j, x.j + x.k) >> ELSE << >>)
            \o OpcodesFrom(blocks, n + 1, x.i + x.k, x.j + x.k)

get_opcodes(a, b) ==
    Bind(get_matching_blocks(a, b), LAMBDA blocks : OpcodesFrom(blocks, 1, 0, 0))

(***************************************************************************)
(* smart_merge of both dialects.  The two functions differ in the          *)
(* extractor they call and in the number of insertion slots: the flat      *)
(* dialect has one slot per ancestor definition and a trailing one, the    *)
(* indented dialect has one slot per ancestor definition only.             *)
(***************************************************************************)
Dialects == {"cmake", "python"}

Extract(d, text) ==
    IF d = "cmake" THEN identify_definitions(text) ELSE identify_function_definitions(text)

ValueError == "ValueError"

\* names, texts = zip(*definitions): unpacking no pair at all fails
Unzip(defs) ==
    IF defs.err # NoError THEN [names |-> << >>, texts |-> << >>, err |-> defs.err]
    ELSE IF Len(defs.items) = 0 THEN [names |-> << >>, texts |-> << >>, err |-> ValueError]
    ELSE [names |-> [k \in 1..Len(defs.items) |-> defs.items[k].name],
          texts |-> [k \in 1..Len(defs.items) |-> defs.items[k].text],
          err |-> NoError]

\* the number of insertion slots for n ancestor definitions
InsertSlots(d, n) == IF d = "cmake" THEN n + 1 ELSE n

Unmatched == 0 - 1

\* the pairing of an equal opcode, one definition too far
MatchedIndexShifted(op, s) == op.j1 + (s - op.i1)

\* the definition of the side that an equal opcode pairs with ancestor slot s
MatchedIndex(op, s) == op.j1 + (s - 1 - op.i1)

\* the loop over the opcodes of one matcher; m holds ancestor_delete, the
\* side's match and insert lists, and the failure
RECURSIVE MarkOpcodes(_, _, _, _, _)
MarkOpcodes(ops, k, names, texts, marks) ==
    Bind(marks, LAMBDA m :
    IF k > Len(ops) \/ m.err # NoError THEN m
    ELSE LET op == ops[k]
         IN IF op.tag = "equal"
            THEN MarkOpcodes(ops, k + 1, names, texts,
                     [m EXCEPT !.match = [s \in DOMAIN m.match |->
                         IF op.i1 < s /\ s <= op.i2 THEN MatchedIndex(op, s)
                         ELSE m.match[s]]])
            ELSE LET deleted == [m EXCEPT !.delete = [s \in DOMAIN m.delete |->
                                     m.delete[s] \/ (op.i1 < s /\ s <= op.i2)]]
                     added == [j \in 1..(op.j2 - op.j1) |->
                                  Definition(names[op.j1 + j], texts[op.j1 + j])]
                 IN IF op.j1 >= op.j2 THEN MarkOpcodes(ops, k + 1, names, texts, deleted)
                    ELSE IF op.i1 + 1 > Len(m.insert)
                    THEN [deleted EXCEPT !.err = IndexError]
                    ELSE MarkOpcodes(ops, k + 1, names, texts,
                             [deleted EXCEPT !.insert[op.i1 + 1] = @ \o added]))

\* the marks one side leaves: ancestor_delete, its match and its insert list
Marks(d, delete, ancestor_names, names, texts) ==
    LET n == Len(ancestor_names)
    IN Bind(get_opcodes(ancestor_names, names), LAMBDA ops :
           MarkOpcodes(ops, 1, names, texts,
                       [delete |-> delete,
                        match |-> [s \in 1..n |-> Unmatched],
                        insert |-> [s \in 1..InsertSlots(d, n) |-> << >>],
                        err |-> NoError]))

InsNames(ins) == {ins[k].name : k \in 1..Len(ins)}

\* the texts of the insertions of a slot but for the last one
InsTextsButLast(ins) == [k \in 1..(Len(ins) - 1) |-> ins[k].text]

\* (t for n, t in ins)
InsTexts(ins) == [k \in 1..Len(ins) |-> ins[k].text]

\* a walk that never sees a common name
BothAddNever(current_ins, other_ins) == FALSE

\* "Both add - don't merge": the two sides insert a common name at the slot
BothAdd(current_ins, other_ins) == InsNames(current_ins) \cap InsNames(other_ins) # {}

\* the insertions of a slot, other's before current's
MergedOtherFirst(current_ins, other_ins) == InsTexts(other_ins \o current_ins)

\* the texts a slot without a common name adds to all three outputs
Merged(current_ins, other_ins) == InsTexts(current_ins \o other_ins)

\* a walk that gives a matched slot the ancestor's text on both sides
WalkSlotAncestorText(out, name, text, delete, current_ix, other_ix, current_ins, other_ins, current_texts, other_texts) ==
    LET both == BothAdd(current_ins, other_ins)
        merged == Merged(current_ins, other_ins)
        a == IF both THEN out.ancestor ELSE out.ancestor \o merged
        c == IF both THEN out.current \o InsTexts(current_ins) ELSE out.current \o merged
        o == IF both THEN out.other \o InsTexts(other_ins) ELSE out.other \o merged
    IN [ancestor |-> IF ~(name # << >> /\ delete) THEN Append(a, text) ELSE a,
        current |-> IF current_ix # Unmatched THEN Append(c, text) ELSE c,
        other |-> IF other_ix # Unmatched THEN Append(o, text) ELSE o]

\* one round of the final walk: what the slot appends to the three outputs
WalkSlot(out, name, text, delete, current_ix, other_ix, current_ins, other_ins, current_texts, other_texts) ==
    LET both == BothAdd(current_ins, other_ins)
        merged == Merged(current_ins, other_ins)
        a == IF both THEN out.ancestor ELSE out.ancestor \o merged
        c == IF both THEN out.current \o InsTexts(current_ins) ELSE out.current \o merged
        o == IF both THEN out.other \o InsTexts(other_ins) ELSE out.other \o merged
    IN [ancestor |-> IF ~(name # << >> /\ delete) THEN Append(a, text) ELSE a,
        current |-> IF current_ix # Unmatched
                    THEN Append(c, current_texts[current_ix + 1]) ELSE c,
        other |-> IF other_ix # Unmatched
                  THEN Append(o, other_texts[other_ix + 1]) ELSE o]

\* the lists the walk zips, each ancestor list with its trailing element in
\* the flat dialect; zip stops at the shortest list
WalkLength(d, n) == IF d = "cmake" THEN n + 1 ELSE n

\* "".join(out)
Join(out) == Flatten(out)

(***************************************************************************)
(* Bounds and inputs.                                                      *)
(***************************************************************************)
\* the longest text the extraction specification lexes, in pieces
MaxPieces == 4

\* the most definitions an ancestor of the merge specification holds
MaxAnc == 2

CmakePieces == { <<"a">>, <<"(">>, <<")">>, <<" ">>, <<"\n">>, <<"#">> }

PythonPieces == { <<"d", "e", "f">>, <<"x">>, <<" ">>, <<"\n">>, <<"\t">>,
                  <<":">>, <<"(">>, <<")">>, <<"@">>, <<"#">> }

Pieces(d) == IF d = "cmake" THEN CmakePieces ELSE PythonPieces

RECURSIVE PieceTexts(_, _)
PieceTexts(d, n) ==
    IF n = 0 THEN { << >> }
    ELSE LET shorter == PieceTexts(d, n - 1)
         IN shorter \cup {t \o p : t \in shorter, p \in Pieces(d)}

\* the definitions the merged files are built from: two names, a line that
\* defines nothing, a third name, and a second text for the first name
CmakeUnits ==
    << <<"a", "(", "x", ")", "\n">>, <<"a", "(", "y", ")", "\n">>, <<"\n">>,
       <<"a", "(", "z", ")", "\n">>, <<"b", "(", "x", ")", "\n">> >>

PythonUnits ==
    << <<"d", "e", "f", " ", "x", "\n">>, <<"d", "e", "f", " ", "y", "\n">>, <<"y", "\n">>,
       <<"d", "e", "f", " ", "z", "\n">>,
       <<"d", "e", "f", " ", "x", "#", "\n">> >>

Units(d) == IF d = "cmake" THEN CmakeUnits ELSE PythonUnits

UnitIds == 1..Len(CmakeUnits)

\* an ancestor is built from the first three units; the sides add the others
AncestorUnitIds == 1..(Len(CmakeUnits) - 2)

UnitSeqs(ids, n) == UNION {[1..m -> ids] : m \in 0..n}

TextOf(d, us) == Flatten([k \in 1..Len(us) |-> Units(d)[us[k]]])

InsertAt(s, p, x) == SubSeq(s, 1, p - 1) \o << x >> \o SubSeq(s, p, Len(s))

RemoveAt(s, p) == SubSeq(s, 1, p - 1) \o SubSeq(s, p + 1, Len(s))

\* a side of the merge: the ancestor itself, or the ancestor with one unit
\* inserted, removed or replaced
Edits(s) ==
    {s} \cup {RemoveAt(s, p) : p \in 1..Len(s)}
        \cup {InsertAt(s, p, x) : p \in 1..(Len(s) + 1), x \in UnitIds}
        \cup {[s EXCEPT ![p] = x] : p \in 1..Len(s), x \in UnitIds}

\* the texts of the driver's files: one definition, the same definition with
\* another text, two definitions, and a closing bracket that nothing opens
DriverTexts(d) == {TextOf(d, <<1>>), TextOf(d, <<5>>), TextOf(d, <<1, 2>>), <<")">>}

\* the texts the merge specification and the driver specification build
CmakeTexts == {TextOf("cmake", us) : us \in UnitSeqs(UnitIds, MaxAnc + 1)} \cup DriverTexts("cmake")

PythonTexts == {TextOf("python", us) : us \in UnitSeqs(UnitIds, MaxAnc + 1)} \cup DriverTexts("python")

\* zip(*definitions) of the two extractors restricted to those texts, so
\* that a text is lexed once
CmakeTable == [t \in CmakeTexts |-> Unzip(identify_definitions(t))]

PythonTable == [t \in PythonTexts |-> Unzip(identify_function_definitions(t))]

UnzippedDefinitions(d, t) == IF d = "cmake" THEN CmakeTable[t] ELSE PythonTable[t]

(***************************************************************************)
(* The merge driver: files, paths, the UTF-8 codec and the fallback tool.  *)
(***************************************************************************)
SIZE_THRESHOLD == 1024 * 1024 * 40

\* the code points of the characters the driver's files hold
CodePoint ==
    [c \in {"\t", "\n", " ", "#", "(", ")", ":", "@", "a", "b", "d", "e", "f", "x", "y", "z"} |->
        CASE c = "\t" -> 9 [] c = "\n" -> 10 [] c = " " -> 32 [] c = "#" -> 35
          [] c = "(" -> 40 [] c = ")" -> 41 [] c = ":" -> 58 [] c = "@" -> 64
          [] c = "a" -> 97 [] c = "b" -> 98 [] c = "d" -> 100 [] c = "e" -> 101
          [] c = "f" -> 102 [] c = "x" -> 120 [] c = "y" -> 121 [] c = "z" -> 122]

\* str.encode("UTF-8") on the characters above: one byte each
Encode(text) == [k \in 1..Len(text) |-> CodePoint[text[k]]]

UnicodeError == "UnicodeError"

\* bytes.decode("UTF-8", "strict"): [text, err]; a byte over 127 that starts
\* no well-formed sequence is refused
Decode(bytes) ==
    IF \E k \in 1..Len(bytes) : bytes[k] \notin {CodePoint[c] : c \in DOMAIN CodePoint}
    THEN [text |-> << >>, err |-> UnicodeError]
    ELSE [text |-> [k \in 1..Len(bytes) |->
                       CHOOSE c \in DOMAIN CodePoint : CodePoint[c] = bytes[k]],
          err |-> NoError]

\* a byte that no UTF-8 text holds
InvalidByte == 255

Path(dir, base) == [dir |-> dir, base |-> base]

basename(path) == path.base

\* a join that forgets the directory and lands beside the ancestor file
join_beside(dir, base) == Path("old", base)

\* os.path.join(td, base)
join(dir, base) == Path(dir, base)

\* the directory tempfile.TemporaryDirectory() creates
TemporaryDirectory == "td"

NoFile == [bytes |-> << >>, size |-> 0 - 1, writer |-> "nobody"]

File(bytes, size, writer) == [bytes |-> bytes, size |-> size, writer |-> writer]

\* open(path, "wb").write(bytes) by merge itself
Written(bytes) == File(bytes, Len(bytes), "merge")

\* the command line default_merge runs
MergeFileArgv(ancestor_path, ancestor_name, current_path, current_name, other_path, other_name, marker_size) ==
    << "git", "merge-file", "-L", current_name, "-L", ancestor_name, "-L", other_name,
       current_path, ancestor_path, other_path >>

\* what git merge-file leaves in the current file: a function of the three
\* files it read that the model does not interpret
MergeFileOutput(fs, argv) ==
    File([current |-> fs[argv[9]].bytes, ancestor |-> fs[argv[10]].bytes,
          other |-> fs[argv[11]].bytes],
         0 - 1, "git merge-file")

(***************************************************************************)
(* State.                                                                  *)
(***************************************************************************)
VARIABLES
    pc,                 \* the position of the running function
    dialect,            \* which merger module runs
    text,               \* the argument of the extractor
    definitions,        \* what the extractor returned or raised
    args,               \* the arguments of merge
    files,              \* the file system: path -> file
    fallback_calls,     \* the calls of default_merge, with the files they saw
    status,             \* what merge returned
    ancestor, current, other,           \* the arguments of smart_merge
    ancestor_names, ancestor_texts, current_names, current_texts,
    other_names, other_texts,
    ancestor_delete, current_match, other_match, current_insert, other_insert,
    slot,               \* the round of the final walk
    ancestor_out, current_out, other_out,
    raised,             \* the exception that left the function
    result,             \* what smart_merge returned
    tokens,             \* what the lexer yields: the iterator the matcher reads
    cursor,             \* how far the running generator has read its input: the
                        \* next token of the matcher, the Lines the block
                        \* segmenter has read
    yielded,            \* the elements the consumer of that generator holds
    group,              \* the generator of the group yielded last: fresh, done with
                        \* ("none"), or failed when it was run or collected
    lines,              \* the Lines the block segmenter reads
    indent_stack,       \* its open Blocks, the innermost last
    expect_indent,      \* the colon of the significant line it read last
    line_state          \* the locals of the line segmenter between two elements

stream_vars == << tokens, cursor, yielded, group >>

block_vars == << lines, indent_stack, expect_indent, line_state >>

extractor_vars == << text, definitions, stream_vars, block_vars >>

driver_vars == << args, files, fallback_calls, status >>

argument_vars == << ancestor, current, other >>

mark_vars == << ancestor_names, ancestor_texts, current_names, current_texts,
                other_names, other_texts,
                ancestor_delete, current_match, other_match, current_insert, other_insert >>

out_vars == << ancestor_out, current_out, other_out >>

vars == << pc, dialect, extractor_vars, driver_vars, argument_vars, mark_vars, slot,
           out_vars, raised, result >>

NoResult == [ancestor |-> << >>, current |-> << >>, other |-> << >>]

NoArgs == [ancestor |-> Path("", ""), current |-> Path("", ""), other |-> Path("", ""),
           conflict_marker_size |-> 0]

StreamIdle == tokens = Stream(<< >>, NoError) /\ cursor = 0 /\ yielded = << >> /\ group = "none"

BlocksIdle ==
    /\ lines = Stream(<< >>, NoError)
    /\ indent_stack = << >>
    /\ expect_indent = NoToken
    /\ line_state = EmptyLineState

ExtractorIdle ==
    text = << >> /\ definitions = Stream(<< >>, NoError) /\ StreamIdle /\ BlocksIdle

DriverIdle ==
    /\ args = NoArgs
    /\ files = << >>
    /\ fallback_calls = << >>
    /\ status = "None"

LocalsFresh ==
    /\ ancestor_names = << >> /\ ancestor_texts = << >>
    /\ current_names = << >> /\ current_texts = << >>
    /\ other_names = << >> /\ other_texts = << >>
    /\ ancestor_delete = << >> /\ current_match = << >> /\ other_match = << >>
    /\ current_insert = << >> /\ other_insert = << >>
    /\ slot = 0
    /\ ancestor_out = << >> /\ current_out = << >> /\ other_out = << >>
    /\ raised = NoError
    /\ result = NoResult

(***************************************************************************)
(* The extractor called on its own.                                        *)
(***************************************************************************)
InitExtract ==
    /\ pc = "identify"
    /\ dialect \in Dialects
    /\ text \in PieceTexts(dialect, MaxPieces)
    /\ definitions = Stream(<< >>, NoError)
    /\ StreamIdle
    /\ BlocksIdle
    /\ DriverIdle
    /\ ancestor = << >> /\ current = << >> /\ other = << >>
    /\ LocalsFresh

\* identify_definitions / identify_function_definitions
Identify ==
    /\ pc = "identify"
    /\ definitions' = Extract(dialect, text)
    /\ pc' = IF definitions'.err = NoError THEN "identified" ELSE "raised"
    /\ raised' = definitions'.err
    /\ UNCHANGED << dialect, text, stream_vars, block_vars, driver_vars, argument_vars,
                    mark_vars, slot, out_vars, result >>

NextExtract == Identify

SpecExtract == InitExtract /\ [][NextExtract]_vars

(***************************************************************************)
(* The extractor of the indented dialect on texts built from whole lines.  *)
(***************************************************************************)
\* the most lines of a text built from freely chosen lines
MaxLines == 5

\* a comment, a decorator, two definition heads, a body line, a blank line
\* and a statement
PythonLines ==
    << <<"#", "\n">>, <<"@", "x", "\n">>, <<"d", "e", "f", " ", "x", ":", "\n">>,
       <<"d", "e", "f", " ", "y", ":", "\n">>, <<"\t", "x", "\n">>, <<"\n">>, <<"x", "\n">> >>

LinesText(ids) == Flatten([k \in 1..Len(ids) |-> PythonLines[ids[k]]])

\* the prologues of a commented or decorated definition
Prologues == UnitSeqs({1, 2}, 2) \ { << >> }

\* a body and blank lines after a definition head
Epilogues == { << >>, <<5>>, <<6>>, <<5, 6>> }

\* a definition with its prologue, its head and what follows it
DecoratedUnits == {pre \o << head >> \o post : pre \in Prologues, head \in {3, 4}, post \in Epilogues}

\* texts of up to MaxLines lines, and two decorated definitions in a row
LineTexts ==
    {LinesText(ids) : ids \in UnitSeqs(1..Len(PythonLines), MaxLines)}
        \cup {LinesText(u \o v) : u \in DecoratedUnits, v \in DecoratedUnits}

InitLines ==
    /\ pc = "identify"
    /\ dialect = "python"
    /\ text \in LineTexts
    /\ definitions = Stream(<< >>, NoError)
    /\ StreamIdle
    /\ BlocksIdle
    /\ DriverIdle
    /\ ancestor = << >> /\ current = << >> /\ other = << >>
    /\ LocalsFresh

SpecLines == InitLines /\ [][NextExtract]_vars

(***************************************************************************)
(* The extractor of the flat dialect on one command with its arguments.    *)
(***************************************************************************)
\* the most arguments of the command
MaxArguments == 5

\* two values, two group keys and a line break between arguments
ArgumentWords == << <<"x">>, <<"y">>, <<"A">>, <<"B">>, <<"\n">> >>

\* the words separated by single spaces
RECURSIVE Spaced(_)
Spaced(ids) ==
    IF Len(ids) = 0 THEN << >>
    ELSE IF Len(ids) = 1 THEN ArgumentWords[ids[1]]
    ELSE ArgumentWords[ids[1]] \o <<" ">> \o Spaced(Tail(ids))

CommandText(ids) == <<"a", "(">> \o Spaced(ids) \o <<")", "\n">>

CommandTexts == {CommandText(ids) : ids \in UnitSeqs(1..Len(ArgumentWords), MaxArguments)}

InitCommand ==
    /\ pc = "identify"
    /\ dialect = "cmake"
    /\ text \in CommandTexts
    /\ definitions = Stream(<< >>, NoError)
    /\ StreamIdle
    /\ BlocksIdle
    /\ DriverIdle
    /\ ancestor = << >> /\ current = << >> /\ other = << >>
    /\ LocalsFresh

SpecCommand == InitCommand /\ [][NextExtract]_vars

(***************************************************************************)
(* The streaming matcher and its consumer: iter_match_parens at the top    *)
(* level, one action for each element the consumer asks for and one for    *)
(* each group it collects.                                                 *)
(***************************************************************************)
\* the longest text the matcher specification reads, in pieces
MaxBrackets == 4

\* two kinds of brackets, a name, the start of a comment, a blank and a
\* character no token of the indented dialect starts with
BracketPieces == { <<"(">>, <<")">>, <<"[">>, <<"]">>, <<"x">>, <<"#">>, <<" ">>, <<"$">> }

RECURSIVE BracketTexts(_)
BracketTexts(n) ==
    IF n = 0 THEN { << >> }
    ELSE LET shorter == BracketTexts(n - 1)
         IN shorter \cup {t \o p : t \in shorter, p \in BracketPieces}

InitParens ==
    /\ pc = "stream"
    /\ dialect = "python"
    /\ text \in BracketTexts(MaxBrackets)
    /\ definitions = Stream(<< >>, NoError)
    /\ tokens = iter_tokens(dialect, text)
    /\ cursor = 1
    /\ yielded = << >>
    /\ group = "none"
    /\ BlocksIdle
    /\ DriverIdle
    /\ ancestor = << >> /\ current = << >> /\ other = << >>
    /\ LocalsFresh

\* a generator that yields nothing more
Exhausted == [items |-> << >>, next |-> cursor, err |-> NoError]

\* what the generator of the group yielded last yields when it is run: the
\* recursive call of iter_match_parens on the shared iterator
GroupTokens ==
    IterMatchFrom(text, tokens, cursor, Parens(dialect),
                  Parens(dialect)[TokText(text, Last(yielded).left)])

\* the outer loop at the token the iterator gives after the group is done
\* with: the end of the input, an opener, a closer or another token
TopLevelStep(k) ==
    IF k > Len(tokens.items)
    THEN /\ pc' = IF tokens.err = NoError THEN "exhausted" ELSE "raised"
         /\ raised' = tokens.err
         /\ cursor' = k
         /\ group' = "none"
         /\ UNCHANGED yielded
    ELSE IF TokText(text, tokens.items[k]) \in DOMAIN Parens(dialect)
    THEN /\ yielded' = Append(yielded, IterParenthesized(tokens.items[k], << >>, NoError))
         /\ group' = "fresh"
         /\ cursor' = k + 1
         /\ UNCHANGED << pc, raised >>
    ELSE IF TokText(text, tokens.items[k]) \in Closers(Parens(dialect))
    THEN /\ pc' = "raised"
         /\ raised' = UnexpectedParen
         /\ cursor' = k + 1
         /\ group' = "none"
         /\ UNCHANGED yielded
    ELSE /\ yielded' = Append(yielded, tokens.items[k])
         /\ group' = "none"
         /\ cursor' = k + 1
         /\ UNCHANGED << pc, raised >>

\* next() without the loop that exhausts the group yielded last
NextElementNoDrain ==
    /\ pc = "stream"
    /\ TopLevelStep(cursor)
    /\ UNCHANGED << dialect, text, definitions, tokens, block_vars, driver_vars,
                    argument_vars, mark_vars, slot, out_vars, result >>

\* next() on the top-level generator: it first exhausts the group it
\* yielded last, in case the consumer did not, then goes on with the loop
NextElement ==
    /\ pc = "stream"
    /\ \E it \in {IF group = "fresh" THEN GroupTokens ELSE Exhausted} :
           IF it.err # NoError
           THEN /\ pc' = "raised"
                /\ raised' = it.err
                /\ cursor' = it.next
                /\ group' = "failed"
                /\ UNCHANGED yielded
           ELSE TopLevelStep(it.next)
    /\ UNCHANGED << dialect, text, definitions, tokens, block_vars, driver_vars,
                    argument_vars, mark_vars, slot, out_vars, result >>

\* collect() on the group yielded last, before the next element is asked for
CollectGroup ==
    /\ pc = "stream"
    /\ group = "fresh"
    /\ \E it \in {GroupTokens} :
       \E c \in {Collect(IterParenthesized(Last(yielded).left, it.items, it.err))} :
           /\ cursor' = it.next
           /\ IF c.err # NoError
              THEN pc' = "raised" /\ raised' = c.err /\ group' = "failed" /\ UNCHANGED yielded
              ELSE /\ yielded' = Append(Front(yielded), c.val)
                   /\ group' = "none"
                   /\ UNCHANGED << pc, raised >>
    /\ UNCHANGED << dialect, text, definitions, tokens, block_vars, driver_vars,
                    argument_vars, mark_vars, slot, out_vars, result >>

NextParens ==
    \/ NextElement
    \/ CollectGroup

SpecParens == InitParens /\ [][NextParens]_vars

(***************************************************************************)
(* The block segmenter and the cleanup pass as identify_function_-         *)
(* definitions runs them: list(identify_python_blocks(lines)), one action  *)
(* for each Line the generator reads and one for the end of its input,     *)
(* then fixup_end_of_block on the list.                                    *)
(***************************************************************************)
\* the most lines of a text the block segmenter reads
MaxBlockLines == 4

\* a statement that ends in a colon and one that does not, at three depths,
\* a blank line and an indented comment
BlockLines ==
    << <<"x", ":", "\n">>, <<"x", "\n">>, <<"\t", "x", ":", "\n">>, <<"\t", "x", "\n">>,
       <<"\t", "\t", "x", "\n">>, <<"\n">>, <<"\t", "#", "\n">> >>

BlockText(ids) == Flatten([k \in 1..Len(ids) |-> BlockLines[ids[k]]])

BlockTexts == {BlockText(ids) : ids \in UnitSeqs(1..Len(BlockLines), MaxBlockLines)}

InitBlocks ==
    /\ pc = "blocks"
    /\ dialect = "python"
    /\ text \in BlockTexts
    /\ definitions = Stream(<< >>, NoError)
    /\ StreamIdle
    /\ \E lexer_output \in {iter_tokens(dialect, text)} :
       \E matched_parens \in {iter_match_parens(text, lexer_output, PythonParens)} :
           lines = identify_python_lines(text, matched_parens)
    /\ indent_stack = << >>
    /\ expect_indent = NoToken
    /\ line_state = EmptyLineState
    /\ DriverIdle
    /\ ancestor = << >> /\ current = << >> /\ other = << >>
    /\ LocalsFresh

\* the line is yielded at top level whatever Block is open
AttachLineTop(stack, out, line) ==
    /\ indent_stack' = stack
    /\ yielded' = yielded \o out \o << line >>

\* the line joins the innermost open Block, or is yielded at top level
AttachLine(stack, out, line) ==
    IF Len(stack) > 0
    THEN /\ indent_stack' = [stack EXCEPT ![Len(stack)].tokens = Append(@, line)]
         /\ yielded' = yielded \o out
    ELSE /\ indent_stack' = stack
         /\ yielded' = yielded \o out \o << line >>

\* raise ...to_error(message) inside the generator
RaiseIndent(message, stack, out) ==
    /\ pc' = "raised"
    /\ raised' = message
    /\ indent_stack' = stack
    /\ yielded' = yielded \o out
    /\ UNCHANGED << cursor, expect_indent >>

\* one round of the loop of identify_python_blocks
SegmentLine ==
    /\ pc = "blocks"
    /\ cursor + 1 <= Len(lines.items)
    /\ LET line == lines.items[cursor + 1]
           current_indent == TopIndent(indent_stack)
           indent_text == IndentText(text, line)
           go_on(expect) == /\ cursor' = cursor + 1
                            /\ expect_indent' = expect
                            /\ UNCHANGED << pc, raised >>
       IN IF line.first_non_blank.kind # "none"
          THEN IF expect_indent.kind # "none"
               THEN IF Len(indent_text) <= current_indent
                    THEN RaiseIndent(ExpectedIndent, indent_stack, << >>)
                    ELSE /\ AttachLine(Append(indent_stack, Block(indent_text, << >>)),
                                       << >>, line)
                         /\ go_on(line.colon)
               ELSE IF Len(indent_text) > current_indent
                    THEN RaiseIndent(UnexpectedIndent, indent_stack, << >>)
                    ELSE \E p \in {PopBlocks(indent_stack, Len(indent_text))} :
                             IF Len(indent_text) > TopIndent(p.stack)
                             THEN RaiseIndent(UnexpectedIndent, p.stack, p.out)
                             ELSE AttachLine(p.stack, p.out, line) /\ go_on(line.colon)
          ELSE AttachLine(indent_stack, << >>, line) /\ go_on(expect_indent)
    /\ UNCHANGED << dialect, text, definitions, tokens, group, lines, line_state,
                    driver_vars, argument_vars, mark_vars, slot, out_vars, result >>

\* the end of the input of identify_python_blocks: an error of the line
\* segmenter comes out of the loop, a colon still waits for its indent, or
\* the open Blocks are flushed and list() has every element
SegmentEnd ==
    /\ pc = "blocks"
    /\ cursor + 1 > Len(lines.items)
    /\ IF lines.err # NoError
       THEN RaiseIndent(lines.err, indent_stack, << >>)
       ELSE IF expect_indent.kind # "none"
       THEN RaiseIndent(ExpectedIndentAtEOF, indent_stack, << >>)
       ELSE /\ pc' = "flushed"
            /\ yielded' = yielded \o PopBlocks(indent_stack, 0 - 1).out
            /\ indent_stack' = << >>
            /\ UNCHANGED << cursor, expect_indent, raised >>
    /\ UNCHANGED << dialect, text, definitions, tokens, group, lines, line_state,
                    driver_vars, argument_vars, mark_vars, slot, out_vars, result >>

\* fixup_end_of_block(blocks)
Fixup ==
    /\ pc = "flushed"
    /\ yielded' = fixup_end_of_block(text, yielded)
    /\ pc' = "fixed"
    /\ UNCHANGED << dialect, text, definitions, tokens, cursor, group, block_vars, driver_vars,
                    argument_vars, mark_vars, slot, out_vars, raised, result >>

NextBlocks ==
    \/ SegmentLine
    \/ SegmentEnd
    \/ Fixup

SpecBlocks == InitBlocks /\ [][NextBlocks]_vars

(***************************************************************************)
(* One lexing pass: iter_tokens run to its end or to its failure, one      *)
(* action for each OptToken that iter_opt_tokens_impl yields and            *)
(* unwrapped_non_blank treats, and one for the end of the pass.  The texts  *)
(* are made of a name, a blank, a newline, a quote (a string of the         *)
(* indented dialect may hold newlines), a comment sign and a character no   *)
(* token of the indented dialect starts with.                               *)
(***************************************************************************)
\* the most characters of a text that is lexed
MaxLexChars == 4

LexChars == {"x", " ", "\n", "\"", "#", "$"}

LexTexts == UnitSeqs(LexChars, MaxLexChars)

InitLex ==
    /\ pc = "lex"
    /\ dialect \in {"cmake", "python"}
    /\ text \in LexTexts
    /\ definitions = Stream(<< >>, NoError)
    /\ StreamIdle
    /\ BlocksIdle
    /\ DriverIdle
    /\ ancestor = << >> /\ current = << >> /\ other = << >>
    /\ LocalsFresh

\* pos: the start given to iter_tokens, then the end of the span yielded last
LexPosBeforeGap ==
    IF yielded = << >> THEN StartPosition
    ELSE IF Last(yielded).kind = NoneKind THEN Last(yielded).start
    ELSE Last(yielded).end

LexPos == IF yielded = << >> THEN StartPosition ELSE Last(yielded).end

\* the offset the text without a match reaches to: the start of the next
\* match, the end of the buffer when there is none
LexStop ==
    IF NextMatchStart(dialect, text, LexPos.index) = NoMatch THEN Len(text)
    ELSE NextMatchStart(dialect, text, LexPos.index)

\* the OptToken without a kind is yielded; unwrapped_non_blank skips it when
\* it is blank and fails on it otherwise
LexGap ==
    /\ pc = "lex"
    /\ LexPos.index # LexStop
    /\ \E t \in {OptToken(NoneKind, LexPos, advanced(LexPos, text, LexPos.index, LexStop))} :
           /\ yielded' = Append(yielded, t)
           /\ cursor' = t.end.index
           /\ IF IsBlank(TokText(text, t))
              THEN UNCHANGED << pc, raised, tokens >>
              ELSE /\ pc' = "raised"
                   /\ raised' = LexError
                   /\ tokens' = Stream(tokens.items, LexError)
    /\ UNCHANGED << dialect, text, definitions, group, block_vars, driver_vars,
                    argument_vars, mark_vars, slot, out_vars, result >>

\* the OptToken of a match is yielded and unwrapped
LexMatch ==
    /\ pc = "lex"
    /\ LexPos.index = LexStop
    /\ LexStop < Len(text)
    /\ \E mo \in {Pattern(dialect, text, LexStop)} :
       \E t \in {OptToken(mo.kind, LexPos, advanced(LexPos, text, LexPos.index, mo.end))} :
           /\ yielded' = Append(yielded, t)
           /\ cursor' = t.end.index
           /\ tokens' = Stream(Append(tokens.items, t), NoError)
    /\ UNCHANGED << pc, raised, dialect, text, definitions, group, block_vars, driver_vars,
                    argument_vars, mark_vars, slot, out_vars, result >>

\* no match is left and no text after the last one
LexEnd ==
    /\ pc = "lex"
    /\ LexPos.index = LexStop
    /\ LexStop = Len(text)
    /\ pc' = "lexed"
    /\ UNCHANGED << raised, dialect, text, definitions, stream_vars, block_vars, driver_vars,
                    argument_vars, mark_vars, slot, out_vars, result >>

NextLex ==
    \/ LexGap
    \/ LexMatch
    \/ LexEnd

SpecLex == InitLex /\ [][NextLex]_vars

(***************************************************************************)
(* The line segmenter of the indented dialect, one action for each round   *)
(* of its loop and one for the end of its input.  The texts are made of a  *)
(* name, a colon, a backslash, a newline, a comment sign, a blank and the  *)
(* round brackets; the segmenter reads what either bracket matcher makes   *)
(* of them.                                                                *)
(***************************************************************************)
\* the most characters of a text the line segmenter is run on
MaxLineChars == 4

LineChars == {"x", ":", "\\", "\n", "#", " ", "(", ")"}

LineSegmentTexts == UnitSeqs(LineChars, MaxLineChars)

InitSegment ==
    /\ pc = "lines"
    /\ dialect = "python"
    /\ text \in LineSegmentTexts
    /\ definitions = Stream(<< >>, NoError)
    /\ \E lexer_output \in {iter_tokens(dialect, text)} :
           tokens \in {iter_match_parens(text, lexer_output, PythonParens),
                       match_parens(text, lexer_output, PythonParens)}
    /\ cursor = 0
    /\ yielded = << >>
    /\ group = "none"
    /\ BlocksIdle
    /\ DriverIdle
    /\ ancestor = << >> /\ current = << >> /\ other = << >>
    /\ LocalsFresh

\* one round of the loop of identify_python_lines
LineElement ==
    /\ pc = "lines"
    /\ cursor + 1 <= Len(tokens.items)
    /\ LET tok == tokens.items[cursor + 1]
           st == line_state
           go_on(st1, out) == /\ cursor' = cursor + 1
                              /\ line_state' = st1
                              /\ yielded' = yielded \o out
                              /\ UNCHANGED << pc, raised >>
           \* "Got a real token, so discard any previous colon"
           real(st1) ==
               IF st1.got_backslash.kind # "none"
               THEN /\ pc' = "raised"
                    /\ raised' = ExpectedNewline
                    /\ line_state' = [st1 EXCEPT !.got_colon = NoToken]
                    /\ UNCHANGED << cursor, yielded >>
               ELSE go_on([st1 EXCEPT !.line = Append(@, tok),
                                      !.got_backslash = GotBackslash(tok),
                                      !.got_colon = GotColon(text, tok)], << >>)
       IN IF tok.kind = "indent"
          THEN IF Len(st.line) > 0
               THEN go_on(st, << >>)
               ELSE real([st EXCEPT !.got_indent = tok])
          ELSE IF tok.kind = "newline"
          THEN IF st.got_backslash.kind = "none"
               THEN go_on(EmptyLineState,
                          << Line(Append(st.line, tok), st.got_indent, st.got_colon, tok,
                                  st.first_non_blank) >>)
               ELSE go_on([st EXCEPT !.line = Append(@, tok), !.got_backslash = NoToken],
                          << >>)
          ELSE IF tok.kind = "comment"
          THEN go_on([st EXCEPT !.line = Append(@, tok)], << >>)
          ELSE IF st.first_non_blank.kind # "none"
          THEN real(st)
          ELSE IF IsToken(tok) THEN real([st EXCEPT !.first_non_blank = tok])
          ELSE IF tok.kind = "parenthesized"
          THEN real([st EXCEPT !.first_non_blank = tok.left])
          ELSE real(st)
    /\ UNCHANGED << dialect, text, definitions, tokens, group, lines, indent_stack,
                    expect_indent, driver_vars, argument_vars, mark_vars, slot, out_vars,
                    result >>

\* the end of the input of identify_python_lines: an error of the lexer or
\* the matcher comes out of the loop, a backslash still waits for its
\* newline, or the last Line is yielded without a newline
LineEnd ==
    /\ pc = "lines"
    /\ cursor + 1 > Len(tokens.items)
    /\ IF tokens.err # NoError
       THEN pc' = "raised" /\ raised' = tokens.err /\ UNCHANGED << yielded, line_state >>
       ELSE IF line_state.got_backslash.kind # "none"
       THEN pc' = "raised" /\ raised' = EOFAfterBackslash
            /\ UNCHANGED << yielded, line_state >>
       ELSE /\ pc' = "segmented"
            /\ yielded' = IF Len(line_state.line) > 0
                          THEN Append(yielded,
                                      Line(line_state.line, line_state.got_indent,
                                           line_state.got_colon, NoToken,
                                           line_state.first_non_blank))
                          ELSE yielded
            /\ UNCHANGED << raised, line_state >>
    /\ UNCHANGED << dialect, text, definitions, tokens, cursor, group, lines, indent_stack,
                    expect_indent, driver_vars, argument_vars, mark_vars, slot, out_vars,
                    result >>

NextSegment ==
    \/ LineElement
    \/ LineEnd

SpecSegment == InitSegment /\ [][NextSegment]_vars

(***************************************************************************)
(* smart_merge, one action for the alignment, one for each round of the    *)
(* walk, one for the return.                                               *)
(***************************************************************************)
InitMerge ==
    /\ pc = "smart_merge"
    /\ dialect \in Dialects
    /\ \E anc \in UnitSeqs(AncestorUnitIds, MaxAnc) : \E cur \in Edits(anc), oth \in Edits(anc) :
           /\ ancestor = TextOf(dialect, anc)
           /\ current = TextOf(dialect, cur)
           /\ other = TextOf(dialect, oth)
    /\ ExtractorIdle
    /\ DriverIdle
    /\ LocalsFresh

\* the failure of the statements before the walk, in the order they run
AlignError(a, c, o, cm, om) ==
    IF a.err # NoError THEN a.err
    ELSE IF c.err # NoError THEN c.err
    ELSE IF o.err # NoError THEN o.err
    ELSE IF cm.err # NoError THEN cm.err
    ELSE om.err

\* marks whose second loop starts from a fresh ancestor_delete and so forgets
\* what current deleted
MarkedForgetful(d, a, c, o) ==
    Bind(Marks(d, [s \in 1..Len(a.names) |-> FALSE], a.names, c.names, c.texts), LAMBDA cm :
    Bind(Marks(d, [s \in 1..Len(a.names) |-> FALSE], a.names, o.names, o.texts), LAMBDA om :
        [err |-> AlignError(a, c, o, cm, om),
         ancestor_names |-> a.names, ancestor_texts |-> a.texts,
         current_names |-> c.names, current_texts |-> c.texts,
         other_names |-> o.names, other_texts |-> o.texts,
         ancestor_delete |-> om.delete,
         current_match |-> cm.match, other_match |-> om.match,
         current_insert |-> cm.insert, other_insert |-> om.insert]))

\* the statements of smart_merge between the extraction and the walk: the
\* two matchers and the marks; a, c and o are the unzipped definitions
Marked(d, a, c, o) ==
    Bind(Marks(d, [s \in 1..Len(a.names) |-> FALSE], a.names, c.names, c.texts), LAMBDA cm :
    Bind(Marks(d, cm.delete, a.names, o.names, o.texts), LAMBDA om :
        [err |-> AlignError(a, c, o, cm, om),
         ancestor_names |-> a.names, ancestor_texts |-> a.texts,
         current_names |-> c.names, current_texts |-> c.texts,
         other_names |-> o.names, other_texts |-> o.texts,
         ancestor_delete |-> om.delete,
         current_match |-> cm.match, other_match |-> om.match,
         current_insert |-> cm.insert, other_insert |-> om.insert]))

\* zip(*definitions) of the three texts, in the order smart_merge extracts
\* them
UnzippedAll(d, ancestor_text, current_text, other_text) ==
    [k \in 1..3 |-> UnzippedDefinitions(d, << ancestor_text, current_text, other_text >>[k])]

\* smart_merge up to the walk
Align ==
    /\ pc = "smart_merge"
    /\ \E unzipped \in {UnzippedAll(dialect, ancestor, current, other)} :
       \E m \in {Marked(dialect, unzipped[1], unzipped[2], unzipped[3])} :
          IF m.err # NoError
          THEN /\ pc' = "raised"
               /\ raised' = m.err
               /\ UNCHANGED << mark_vars, slot >>
          ELSE /\ pc' = "walk"
               /\ raised' = raised
               /\ ancestor_names' = m.ancestor_names /\ ancestor_texts' = m.ancestor_texts
               /\ current_names' = m.current_names /\ current_texts' = m.current_texts
               /\ other_names' = m.other_names /\ other_texts' = m.other_texts
               /\ ancestor_delete' = m.ancestor_delete
               /\ current_match' = m.current_match /\ other_match' = m.other_match
               /\ current_insert' = m.current_insert /\ other_insert' = m.other_insert
               /\ slot' = 1
    /\ UNCHANGED << dialect, extractor_vars, driver_vars, argument_vars, out_vars, result >>

\* the element s of a list of the walk, d when the list has run out: the
\* element the flat dialect appends to each ancestor list
Element(list, s, d) == IF s <= Len(list) THEN list[s] ELSE d

\* one round of the walk
Walk ==
    /\ pc = "walk"
    /\ slot <= WalkLength(dialect, Len(ancestor_names))
    /\ \E out \in {WalkSlot([ancestor |-> ancestor_out, current |-> current_out,
                             other |-> other_out],
                            Element(ancestor_names, slot, << >>),
                            Element(ancestor_texts, slot, << >>),
                            Element(ancestor_delete, slot, FALSE),
                            Element(current_match, slot, Unmatched),
                            Element(other_match, slot, Unmatched),
                            current_insert[slot], other_insert[slot],
                            current_texts, other_texts)} :
          /\ ancestor_out' = out.ancestor
          /\ current_out' = out.current
          /\ other_out' = out.other
    /\ slot' = slot + 1
    /\ UNCHANGED << pc, dialect, extractor_vars, driver_vars, argument_vars, mark_vars,
                    raised, result >>

\* the return statement of smart_merge
Return ==
    /\ pc = "walk"
    /\ slot > WalkLength(dialect, Len(ancestor_names))
    /\ result' = [ancestor |-> Join(ancestor_out), current |-> Join(current_out),
                  other |-> Join(other_out)]
    /\ pc' = "returned"
    /\ UNCHANGED << dialect, extractor_vars, driver_vars, argument_vars, mark_vars, slot,
                    out_vars, raised >>

NextMerge == Align \/ Walk \/ Return

SpecMerge == InitMerge /\ [][NextMerge]_vars

(***************************************************************************)
(* merge, the driver: the size guard, the reads and the decoding, the call *)
(* of smart_merge (the three actions above), the write of the current      *)
(* file, the comparison, and the fallback on temporary files.              *)
(***************************************************************************)
AncestorPath == Path("old", "f")

CurrentPath == Path("work", "f")

\* the other file has the base name of the ancestor file, or another one
OtherPaths == {Path("new", "f"), Path("new", "g")}

TemporaryPaths == {join(TemporaryDirectory, "f"), join(TemporaryDirectory, "g")}

AllPaths == {AncestorPath, CurrentPath} \cup OtherPaths \cup TemporaryPaths

MarkerSizes == {7, 9}

\* what may be wrong with one of the three files
Flaws == {"none", "size at threshold", "size over threshold", "not UTF-8"}

InputFile(t, flaw) ==
    LET bytes == IF flaw = "not UTF-8" THEN << InvalidByte >> \o Encode(t) ELSE Encode(t)
    IN File(bytes,
            IF flaw = "size at threshold" THEN SIZE_THRESHOLD
            ELSE IF flaw = "size over threshold" THEN SIZE_THRESHOLD + 1
            ELSE Len(bytes),
            "input")

Init ==
    /\ pc = "merge"
    /\ dialect \in Dialects
    /\ \E other_path \in OtherPaths, size \in MarkerSizes :
           args = [ancestor |-> AncestorPath, current |-> CurrentPath, other |-> other_path,
                   conflict_marker_size |-> size]
    /\ \E a \in DriverTexts(dialect), c \in DriverTexts(dialect), o \in DriverTexts(dialect) :
       \E flawed \in {"ancestor", "current", "other"}, flaw \in Flaws :
           files = [p \in AllPaths |->
                       IF p = args.ancestor
                       THEN InputFile(a, IF flawed = "ancestor" THEN flaw ELSE "none")
                       ELSE IF p = args.current
                       THEN InputFile(c, IF flawed = "current" THEN flaw ELSE "none")
                       ELSE IF p = args.other
                       THEN InputFile(o, IF flawed = "other" THEN flaw ELSE "none")
                       ELSE NoFile]
    /\ fallback_calls = << >>
    /\ status = "None"
    /\ ExtractorIdle
    /\ ancestor = << >> /\ current = << >> /\ other = << >>
    /\ LocalsFresh

\* the exit codes of git merge-file: 0 for a clean merge, the number of
\* conflicts otherwise
ExitCodes == {0, 1}

\* default_merge: runs git merge-file on the three paths and returns whether
\* it exited with 0
default_merge(ancestor_path, ancestor_name, current_path, current_name, other_path, other_name, conflict_marker_size, code) ==
    LET argv == MergeFileArgv(ancestor_path, ancestor_name, current_path, current_name,
                              other_path, other_name, conflict_marker_size)
    IN /\ fallback_calls' = Append(fallback_calls,
                                [argv |-> argv,
                                 code |-> code,
                                 ancestor |-> files[ancestor_path],
                                 current |-> files[current_path],
                                 other |-> files[other_path]])
       /\ files' = [files EXCEPT ![current_path] = MergeFileOutput(files, argv)]
       /\ status' = IF code = 0 THEN "True" ELSE "False"

\* the call of default_merge with the ancestor and the other path exchanged
DefaultMergeExchanged(code) ==
    default_merge(args.other, args.other, args.current, args.current,
                  args.ancestor, args.ancestor, args.conflict_marker_size, code)

\* the call of default_merge on the paths merge was given
DefaultMergeOriginals(code) ==
    default_merge(args.ancestor, args.ancestor, args.current, args.current,
                  args.other, args.other, args.conflict_marker_size, code)

\* the size guard
CheckSize ==
    /\ pc = "merge"
    /\ IF \/ files[args.ancestor].size > SIZE_THRESHOLD
          \/ files[args.current].size > SIZE_THRESHOLD
          \/ files[args.other].size > SIZE_THRESHOLD
       THEN /\ \E code \in ExitCodes : DefaultMergeOriginals(code)
            /\ pc' = "done"
            /\ UNCHANGED args
       ELSE /\ pc' = "read"
            /\ UNCHANGED driver_vars
    /\ UNCHANGED << dialect, extractor_vars, argument_vars, mark_vars, slot, out_vars,
                    raised, result >>

\* the three reads and the strict decoding
ReadAndDecode ==
    /\ pc = "read"
    /\ \E a \in {Decode(files[args.ancestor].bytes)},
          c \in {Decode(files[args.current].bytes)},
          o \in {Decode(files[args.other].bytes)} :
          IF a.err # NoError \/ c.err # NoError \/ o.err # NoError
          THEN /\ \E code \in ExitCodes : DefaultMergeOriginals(code)
               /\ pc' = "done"
               /\ UNCHANGED << args, argument_vars >>
          ELSE /\ ancestor' = a.text /\ current' = c.text /\ other' = o.text
               /\ pc' = "smart_merge"
               /\ UNCHANGED driver_vars
    /\ UNCHANGED << dialect, extractor_vars, mark_vars, slot, out_vars, raised, result >>

\* the write of the current file and the comparison of current' with other'
WriteCurrent ==
    /\ pc = "returned"
    /\ files' = [files EXCEPT ![args.current] = Written(Encode(result.current))]
    /\ IF result.current = result.other
       THEN status' = "True" /\ pc' = "done"
       ELSE status' = status /\ pc' = "fallback"
    /\ UNCHANGED << dialect, extractor_vars, args, fallback_calls, argument_vars, mark_vars,
                    slot, out_vars, raised, result >>

\* what open, write and subprocess.call raise when the system refuses
OSError == "OSError"

\* where the writing of the two temporary files may be refused
WriteFailures == {"none", "ancestor", "other"}

\* the two files merge writes into its temporary directory, the ancestor's
\* first; a refused write leaves the block with OSError
WriteTemporary ==
    /\ pc = "fallback"
    /\ \E failure \in WriteFailures :
       LET anc == join(TemporaryDirectory, basename(args.ancestor))
           oth == join(TemporaryDirectory, basename(args.other))
           first == [files EXCEPT ![anc] = Written(Encode(result.ancestor))]
       IN /\ files' = IF failure = "ancestor" THEN files
                      ELSE IF failure = "other" THEN first
                      ELSE [first EXCEPT ![oth] = Written(Encode(result.other))]
          /\ raised' = IF failure = "none" THEN raised ELSE OSError
          /\ pc' = IF failure = "none" THEN "default_merge" ELSE "cleanup"
    /\ UNCHANGED << dialect, extractor_vars, args, fallback_calls, status, argument_vars,
                    mark_vars, slot, out_vars, result >>

\* the call of default_merge on the temporary files; subprocess.call raises
\* OSError when git cannot be started
CallFallback ==
    /\ pc = "default_merge"
    /\ \/ /\ \E code \in ExitCodes :
                default_merge(join(TemporaryDirectory, basename(args.ancestor)), args.ancestor,
                              args.current, args.current,
                              join(TemporaryDirectory, basename(args.other)), args.other,
                              args.conflict_marker_size, code)
          /\ raised' = raised
       \/ /\ raised' = OSError
          /\ UNCHANGED << files, fallback_calls, status >>
    /\ pc' = "cleanup"
    /\ UNCHANGED << dialect, extractor_vars, args, argument_vars, mark_vars, slot, out_vars,
                    result >>

\* the exit of the TemporaryDirectory block, which keeps the directory when
\* the block is left by an exception
CleanupOnReturn ==
    /\ pc = "cleanup"
    /\ files' = [p \in AllPaths |->
                    IF p.dir = TemporaryDirectory /\ raised = NoError THEN NoFile
                    ELSE files[p]]
    /\ pc' = IF raised = NoError THEN "done" ELSE "failed"
    /\ UNCHANGED << dialect, extractor_vars, args, fallback_calls, status, argument_vars,
                    mark_vars, slot, out_vars, raised, result >>

\* the exit of the TemporaryDirectory block, by return or by exception: the
\* directory and the files in it are removed
Cleanup ==
    /\ pc = "cleanup"
    /\ files' = [p \in AllPaths |-> IF p.dir = TemporaryDirectory THEN NoFile ELSE files[p]]
    /\ pc' = IF raised = NoError THEN "done" ELSE "failed"
    /\ UNCHANGED << dialect, extractor_vars, args, fallback_calls, status, argument_vars,
                    mark_vars, slot, out_vars, raised, result >>

\* the call of smart_merge stands in no try block: what it raises leaves
\* merge
Propagate ==
    /\ pc = "raised"
    /\ pc' = "failed"
    /\ UNCHANGED << dialect, extractor_vars, driver_vars, argument_vars, mark_vars, slot,
                    out_vars, raised, result >>

Next ==
    \/ CheckSize
    \/ ReadAndDecode
    \/ Align
    \/ Walk
    \/ Return
    \/ WriteCurrent
    \/ WriteTemporary
    \/ CallFallback
    \/ Cleanup
    \/ Propagate

Spec == Init /\ [][Next]_vars

(***************************************************************************)
(* Properties.                                                             *)
(***************************************************************************)
\* the texts of a sequence of definitions, joined
JoinedTexts(defs) == Join(InsTexts(defs))

\* C1: whenever the extractor of either dialect returns (raises nothing),
\* joining the texts of the definitions it returned, in order, gives back
\* the input text.
C1_RoundTrip ==
    pc = "identified" => JoinedTexts(definitions.items) = text

\* the elements new has after old, when new extends old
Appended(old, new) ==
    IF Len(new) >= Len(old) /\ SubSeq(new, 1, Len(old)) = old
    THEN SubSeq(new, Len(old) + 1, Len(new))
    ELSE << "not an extension" >>

Range(seq) == {seq[k] : k \in 1..Len(seq)}

\* the unzipped definitions of the three arguments of smart_merge
ParsedArguments == UnzippedAll(dialect, ancestor, current, other)

\* smart_merge has returned or raised
Finished == pc \in {"returned", "raised"}

\* side holds the n ancestor definitions a, unchanged and in order, with k
\* definitions of its own before the definition p of the ancestor (after
\* the last one when p = n + 1)
InsertedAt(a, side, p) ==
    LET n == Len(a.names)
        k == Len(side.names) - n
    IN /\ k >= 1
       /\ p \in 1..(n + 1)
       /\ SubSeq(side.names, 1, p - 1) = SubSeq(a.names, 1, p - 1)
       /\ SubSeq(side.texts, 1, p - 1) = SubSeq(a.texts, 1, p - 1)
       /\ SubSeq(side.names, p + k, n + k) = SubSeq(a.names, p, n)
       /\ SubSeq(side.texts, p + k, n + k) = SubSeq(a.texts, p, n)

InsertedNames(a, side, p) ==
    Range(SubSeq(side.names, p, p + Len(side.names) - Len(a.names) - 1))

InsertedTexts(a, side, p) ==
    SubSeq(side.texts, p, p + Len(side.texts) - Len(a.texts) - 1)

\* both sides insert named definitions before the definition p of the
\* ancestor, under disjoint names, and change nothing else; u holds the
\* unzipped definitions of ancestor, current and other
DisjointInsert(u, p) ==
    /\ \A k \in 1..3 : u[k].err = NoError
    /\ InsertedAt(u[1], u[2], p)
    /\ InsertedAt(u[1], u[3], p)
    /\ << >> \notin InsertedNames(u[1], u[2], p) \cup InsertedNames(u[1], u[3], p)
    /\ InsertedNames(u[1], u[2], p) \cap InsertedNames(u[1], u[3], p) = {}

\* the ancestor with current's insertions, then other's, before definition p
ExpectedMerge(u, p) ==
    Join(SubSeq(u[1].texts, 1, p - 1)
         \o InsertedTexts(u[1], u[2], p)
         \o InsertedTexts(u[1], u[3], p)
         \o SubSeq(u[1].texts, p, Len(u[1].texts)))

\* smart_merge raises nothing and, once it has returned, has returned t
\* three times
ReturnsThrice(t) ==
    /\ pc # "raised"
    /\ pc = "returned" => result = [ancestor |-> t, current |-> t, other |-> t]

\* no name of the ancestor occurs twice (two unnamed definitions have the
\* same, empty, name) and no inserted name occurs in the ancestor
FreshNames(u, p) ==
    /\ Cardinality(Range(u[1].names)) = Len(u[1].names)
    /\ (InsertedNames(u[1], u[2], p) \cup InsertedNames(u[1], u[3], p))
           \cap Range(u[1].names) = {}

\* C2 as stated: when current and other each insert named definitions
\* before the same ancestor definition, under disjoint names, and nothing
\* else changes, smart_merge returns three times the ancestor with current's
\* insertions followed by other's before that definition.
C2_DisjointInsertAsStated ==
    Finished => Bind(ParsedArguments, LAMBDA u :
        \A p \in 1..Len(u[1].names) :
            DisjointInsert(u, p) => ReturnsThrice(ExpectedMerge(u, p)))

\* C2, amended: the same, when moreover the names of the ancestor are
\* pairwise distinct and the inserted names do not occur in the ancestor.
C2_DisjointInsert ==
    Finished => Bind(ParsedArguments, LAMBDA u :
        \A p \in 1..Len(u[1].names) :
            (DisjointInsert(u, p) /\ FreshNames(u, p)) => ReturnsThrice(ExpectedMerge(u, p)))

\* smart_merge has returned from a disjoint insertion in the middle of an
\* ancestor of two definitions, in the indented dialect
C2_Witness ==
    /\ pc = "returned"
    /\ dialect = "python"
    /\ Len(ancestor_names) = 2
    /\ Bind(ParsedArguments, LAMBDA u :
           /\ DisjointInsert(u, 2) /\ FreshNames(u, 2)
           /\ result.current = ExpectedMerge(u, 2))

\* C3: in both dialects, when current and other each append definitions
\* after the last definition of the ancestor, under disjoint fresh names,
\* smart_merge returns three times the ancestor followed by current's and
\* then other's appended definitions.
C3_EndOfFileInsert ==
    Finished => Bind(ParsedArguments, LAMBDA u :
        (DisjointInsert(u, Len(u[1].names) + 1) /\ FreshNames(u, Len(u[1].names) + 1))
            => ReturnsThrice(ExpectedMerge(u, Len(u[1].names) + 1)))

\* C4: smart_merge(X, X, X) returns (X, X, X) for every text X the extractor
\* accepts.
C4_NoOp ==
    (Finished /\ ancestor = current /\ current = other
        /\ \A k \in 1..3 : ParsedArguments[k].err \in {NoError, ValueError})
    => ReturnsThrice(ancestor)

\* the walk takes the round of the slot
WalkRound == pc = "walk" /\ slot' = slot + 1

\* the two sides insert a definition of the same name at slot s
ConflictAt(s) ==
    \E i \in DOMAIN current_insert[s], j \in DOMAIN other_insert[s] :
        current_insert[s][i].name = other_insert[s][j].name

\* the text of ancestor slot s, empty for the trailing slot
SlotText(s) == IF s <= Len(ancestor_texts) THEN ancestor_texts[s] ELSE << >>

\* C5: when the insertions of current and of other at a slot share a name,
\* the round of that slot adds no insertion to ancestor', adds current's
\* insertions to current' only and other's insertions to other' only.
C5_SameNameConflict ==
    [][(WalkRound /\ ConflictAt(slot)) =>
        LET a == Appended(ancestor_out, ancestor_out')
            c == Appended(current_out, current_out')
            o == Appended(other_out, other_out')
            ci == InsTexts(current_insert[slot])
            oi == InsTexts(other_insert[slot])
        IN /\ a \in {<< >>, << SlotText(slot) >>}
           /\ c \in {ci} \cup {Append(ci, t) : t \in Range(current_texts)}
           /\ o \in {oi} \cup {Append(oi, t) : t \in Range(other_texts)}]_vars

\* smart_merge has returned after a slot where the two sides insert
\* different texts under one name
C5_Witness ==
    /\ pc = "returned"
    /\ \E s \in DOMAIN current_insert :
           /\ ConflictAt(s)
           /\ InsTexts(current_insert[s]) # InsTexts(other_insert[s])
    /\ result.current # result.other

\* the opcodes of the diff of the ancestor's names with names that cover
\* ancestor slot s
OpcodesAt(names, s) ==
    {op \in Range(get_opcodes(ancestor_names, names)) : op.i1 < s /\ s <= op.i2}

\* ancestor slot s is covered by a non-equal opcode of the diff with names
NonEqualCover(names, s) == \E op \in OpcodesAt(names, s) : op.tag # "equal"

\* what the insertions of slot s add to ancestor'
AncestorInsertions(s) ==
    IF ConflictAt(s) THEN << >> ELSE InsTexts(current_insert[s] \o other_insert[s])

\* C6: the round of an ancestor slot leaves the slot's text out of ancestor'
\* exactly when the slot has a name and a non-equal opcode of the diff with
\* current or of the diff with other covers it; otherwise the text is
\* appended, after the insertions of the slot.
C6_AncestorReconstruction ==
    [][(WalkRound /\ slot <= Len(ancestor_names)) =>
        Appended(ancestor_out, ancestor_out') =
            AncestorInsertions(slot) \o
            (IF /\ ancestor_names[slot] # << >>
                /\ NonEqualCover(current_names, slot) \/ NonEqualCover(other_names, slot)
             THEN << >> ELSE << ancestor_texts[slot] >>)]_vars

\* smart_merge has returned after a named slot that only current deleted,
\* and after an unnamed slot that a side replaced
C6_Witness ==
    /\ pc = "returned"
    /\ \E s \in DOMAIN ancestor_names :
           /\ ancestor_names[s] # << >>
           /\ NonEqualCover(current_names, s)
           /\ ~NonEqualCover(other_names, s)
    /\ \E s \in DOMAIN ancestor_names :
           /\ ancestor_names[s] = << >>
           /\ NonEqualCover(other_names, s)

\* the text a side holds for ancestor slot s: that of the definition an
\* equal opcode pairs with the slot, none without such an opcode
OwnText(names, texts, s) ==
    LET ops == {op \in OpcodesAt(names, s) : op.tag = "equal"}
    IN IF ops = {} THEN << >>
       ELSE LET op == CHOOSE op \in ops : TRUE IN << texts[op.j1 + (s - op.i1)] >>

\* the last n elements of seq
LastElements(seq, n) == SubSeq(seq, Len(seq) - n + 1, Len(seq))

\* how many insertions the round of slot s adds to the output of a side
\* whose own insertions are ins
InsertionCount(s, ins) ==
    IF ConflictAt(s) THEN Len(ins) ELSE Len(current_insert[s]) + Len(other_insert[s])

\* C7: the round of a slot that an equal opcode pairs with a definition of
\* current appends that definition's text, current's own, to current'; a
\* slot without such an opcode appends nothing after the insertions; and
\* the same for other'.
C7_MatchedSlotsKeepOwnText ==
    [][WalkRound =>
        LET c == Appended(current_out, current_out')
            o == Appended(other_out, other_out')
            cown == OwnText(current_names, current_texts, slot)
            oown == OwnText(other_names, other_texts, slot)
        IN /\ Len(c) = InsertionCount(slot, current_insert[slot]) + Len(cown)
           /\ LastElements(c, Len(cown)) = cown
           /\ Len(o) = InsertionCount(slot, other_insert[slot]) + Len(oown)
           /\ LastElements(o, Len(oown)) = oown]_vars

\* smart_merge has returned after a slot matched in current, where current's
\* text differs from the ancestor's, and not matched in other
C7_Witness ==
    /\ pc = "returned"
    /\ \E s \in DOMAIN ancestor_names :
           /\ OwnText(current_names, current_texts, s)
                  \notin {<< >>, << ancestor_texts[s] >>}
           /\ OwnText(other_names, other_texts, s) = << >>

\* the alignment is done and the walk has not begun
Aligned == pc = "walk" /\ slot = 1

PairsEqualNames(match, names) ==
    /\ \A s \in DOMAIN match :
           match[s] # Unmatched =>
               /\ match[s] + 1 \in DOMAIN names
               /\ names[match[s] + 1] = ancestor_names[s]
    /\ \A s, t \in DOMAIN match :
           (s < t /\ match[s] # Unmatched /\ match[t] # Unmatched) => match[s] < match[t]

MergedSemantically == pc = "done" /\ slot > 0

\* the fallback has run once, on files that held ancestor', current' and
\* other' when it ran, and merge has returned what it returned
FellBackOnResult ==
    /\ Len(fallback_calls) = 1
    /\ fallback_calls[1].ancestor.bytes = Encode(result.ancestor)
    /\ fallback_calls[1].current = Written(Encode(result.current))
    /\ fallback_calls[1].other.bytes = Encode(result.other)
    /\ status = (IF fallback_calls[1].code = 0 THEN "True" ELSE "False")

\* C9: once smart_merge has returned, merge either finds current' equal to
\* other' and returns success with current' written to the current path and
\* no fallback call, or calls the fallback exactly once, after writing
\* current' to the current path, on files holding ancestor', current' and
\* other', and returns the fallback's status.
C9_DriverOrdering ==
    MergedSemantically =>
        IF result.current = result.other
        THEN /\ fallback_calls = << >>
             /\ status = "True"
             /\ files[args.current] = Written(Encode(result.current))
        ELSE FellBackOnResult

\* the exceptions that are no structural parse error
OtherErrors ==
    {NoError, ValueError, IndexError, AssertionError, StopIteration, HasNoEnd, BugNoTokens,
     OSError}

\* the fallback has run once on the three paths merge was given, with the
\* current file as merge found it
FellBackOnOriginals ==
    /\ Len(fallback_calls) = 1
    /\ fallback_calls[1].argv =
           MergeFileArgv(args.ancestor, args.ancestor, args.current, args.current,
                         args.other, args.other, args.conflict_marker_size)
    /\ fallback_calls[1].current.writer = "input"

\* C10: when the extractor raises a structural parse error on one of the
\* three texts, merge does not fail: it ends having called the fallback on
\* the three original files, without having rewritten the current file.
C10_ParseErrorFallback ==
    (pc \in {"done", "failed"} /\ raised \notin OtherErrors) =>
        (pc = "done" /\ FellBackOnOriginals)

\* the three paths merge was given
GivenPaths == {args.ancestor, args.current, args.other}

\* one of the three files is larger than the threshold
Oversized == \E p \in GivenPaths : files[p].size > SIZE_THRESHOLD

\* one of the three files is no strict UTF-8
Undecodable == \E p \in GivenPaths : Decode(files[p].bytes).err # NoError

\* the step is the guard bypass: one fallback call on the three paths merge
\* was given, which hold what they held when merge was called; merge writes
\* no file (the current file is what git merge-file leaves), nothing of
\* smart_merge runs, and merge returns the fallback's status
BypassStep ==
    /\ pc' = "done"
    /\ Len(fallback_calls') = 1
    /\ fallback_calls'[1].argv =
           MergeFileArgv(args.ancestor, args.ancestor, args.current, args.current,
                         args.other, args.other, args.conflict_marker_size)
    /\ \A p \in GivenPaths : files[p].writer = "input"
    /\ fallback_calls'[1].ancestor = files[args.ancestor]
    /\ fallback_calls'[1].current = files[args.current]
    /\ fallback_calls'[1].other = files[args.other]
    /\ \A p \in AllPaths \ {args.current} : files'[p] = files[p]
    /\ files'[args.current].writer = "git merge-file"
    /\ status' = (IF fallback_calls'[1].code = 0 THEN "True" ELSE "False")
    /\ UNCHANGED << argument_vars, mark_vars, slot, out_vars, raised, result >>

\* C11: when one of the three files is larger than SIZE_THRESHOLD, or, no
\* file being larger, one of them is not strict UTF-8, merge calls the
\* fallback once on the three unmodified paths, runs nothing of smart_merge,
\* writes no file itself and returns the fallback's status; a file of
\* exactly SIZE_THRESHOLD bytes does not trip the size guard, and
\* smart_merge is entered only when no guard trips.
C11_GuardBypass ==
    [][/\ (pc = "merge" /\ pc' # pc) =>
              IF Oversized THEN BypassStep ELSE pc' = "read" /\ UNCHANGED driver_vars
       /\ (pc = "read" /\ pc' # pc) =>
              IF Undecodable THEN BypassStep
              ELSE pc' = "smart_merge" /\ UNCHANGED driver_vars]_vars

\* merge has returned the fallback's failure after bypassing smart_merge for
\* an ancestor file that is no UTF-8
C11_Witness ==
    /\ pc = "done"
    /\ slot = 0
    /\ Decode(files[args.ancestor].bytes).err = UnicodeError
    /\ Len(fallback_calls) = 1
    /\ status = "False"

\* the option by which git merge-file is given the width of its markers
MarkerSizeOption(size) == "--marker-size=" \o ToString(size)

\* the options of a git merge-file command line other than the labels: -L
\* takes the next element as its label, the last three elements are the files
RECURSIVE MergeFileOptionsFrom(_, _)
MergeFileOptionsFrom(argv, j) ==
    IF j > Len(argv) - 3 THEN {}
    ELSE IF argv[j] = "-L" THEN MergeFileOptionsFrom(argv, j + 2)
    ELSE {argv[j]} \cup MergeFileOptionsFrom(argv, j + 1)

\* C12: in every call of the fallback, on the guard paths and after the
\* semantic merge alike, the command line handed to git merge-file carries
\* the conflict marker size merge was given.
C12_MarkerSizeReachesFallback ==
    \A i \in 1..Len(fallback_calls) :
        MarkerSizeOption(args.conflict_marker_size)
            \in MergeFileOptionsFrom(fallback_calls[i].argv, 3)

\* merge has ended, by return or by exception
Ended == pc \in {"done", "failed"}

\* C13: when merge has ended, whether the fallback succeeded, failed, could
\* not be started, or a temporary file could not be written, no file is left
\* in the temporary directory.
C13_TemporaryFilesRemoved ==
    Ended => \A p \in AllPaths : p.dir = TemporaryDirectory => files[p] = NoFile

\* merge has failed with OSError after the ancestor's temporary file was
\* written and the other's was refused, or after git could not be started
C13_Witness ==
    /\ pc = "failed"
    /\ raised = OSError
    /\ files[args.current] = Written(Encode(result.current))
    /\ fallback_calls = << >>

\* the first and last index of every line of t, a line ending with its
\* newline
RECURSIVE LineRangesFrom(_, _, _)
LineRangesFrom(t, first, i) ==
    IF i > Len(t)
    THEN IF first > Len(t) THEN << >> ELSE << [first |-> first, last |-> Len(t)] >>
    ELSE IF t[i] = "\n"
    THEN << [first |-> first, last |-> i] >> \o LineRangesFrom(t, i + 1, i + 1)
    ELSE LineRangesFrom(t, first, i + 1)

LineRanges(t) == LineRangesFrom(t, 1, 1)

\* the first and last index, in the joined texts, of every segment
RECURSIVE SegmentRangesFrom(_, _, _)
SegmentRangesFrom(items, k, first) ==
    IF k > Len(items) THEN << >>
    ELSE << [first |-> first, last |-> first + Len(items[k].text) - 1] >>
             \o SegmentRangesFrom(items, k + 1, first + Len(items[k].text))

SegmentRanges(items) == SegmentRangesFrom(items, 1, 1)

\* the segment that holds index i
SegmentAt(sg, i) ==
    IF \E s \in 1..Len(sg) : sg[s].first <= i /\ i <= sg[s].last
    THEN CHOOSE s \in 1..Len(sg) : sg[s].first <= i /\ i <= sg[s].last
    ELSE 0

\* a line that starts, in its first column, with the word def
IsDefLine(t, r) ==
    r.last - r.first >= 4 /\ SubSeq(t, r.first, r.first + 3) = <<"d", "e", "f", " ">>

\* a decorator line or a comment line that is not indented
IsPrologueLine(t, r) == t[r.first] \in {"@", "#"}

\* an indented line or an empty line
IsEpilogueLine(t, r) == t[r.first] \in {"\t", "\n"}

\* the first line of the maximal run of prologue lines that ends before line k
RECURSIVE PrologueStart(_, _, _)
PrologueStart(t, ls, k) ==
    IF k > 1 /\ IsPrologueLine(t, ls[k - 1]) THEN PrologueStart(t, ls, k - 1) ELSE k

\* the last line of the maximal run of epilogue lines that starts after line k
RECURSIVE EpilogueEnd(_, _, _)
EpilogueEnd(t, ls, k) ==
    IF k < Len(ls) /\ IsEpilogueLine(t, ls[k + 1]) THEN EpilogueEnd(t, ls, k + 1) ELSE k

\* the segment of the definition line k is named after it, starts with the
\* first line of its prologue and holds the lines after its head; it ends
\* with them when exact
DefinitionUnit(t, items, ls, sg, k, exact) ==
    \E s \in {SegmentAt(sg, ls[k].first)} :
        /\ s > 0
        /\ items[s].name = << t[ls[k].first + 4] >>
        /\ sg[s].first = ls[PrologueStart(t, ls, k)].first
        /\ sg[s].last >= ls[EpilogueEnd(t, ls, k)].last
        /\ exact => sg[s].last = ls[EpilogueEnd(t, ls, k)].last

\* the first line from line i on that is no prologue line
RECURSIVE PrologueEnd(_, _, _)
PrologueEnd(t, ls, i) ==
    IF i <= Len(ls) /\ IsPrologueLine(t, ls[i]) THEN PrologueEnd(t, ls, i + 1) ELSE i

\* the lines from line i on are definitions in a row, each with its
\* prologue, its head and the indented and blank lines after it
RECURSIVE DefinitionsInARow(_, _, _)
DefinitionsInARow(t, ls, i) ==
    IF i > Len(ls) THEN TRUE
    ELSE \E k \in {PrologueEnd(t, ls, i)} :
             /\ k <= Len(ls)
             /\ IsDefLine(t, ls[k])
             /\ DefinitionsInARow(t, ls, EpilogueEnd(t, ls, k) + 1)

\* C14: in a text of whole lines that the extractor of the indented dialect
\* accepts, the segment of every non-indented def line is named after it,
\* starts with the maximal run of decorator and non-indented comment lines
\* that immediately precedes the def line, and holds the indented and blank
\* lines that follow it; when the text is nothing but such definitions in a
\* row (two commented, decorated definitions, say), the segments are exactly
\* these units, one named segment for each.
C14_DecoratorAssociation ==
    pc = "identified" =>
        Bind(LineRanges(text), LAMBDA ls :
            Bind(SegmentRanges(definitions.items), LAMBDA sg :
                \E row \in {DefinitionsInARow(text, ls, 1)} :
                    /\ \A k \in 1..Len(ls) :
                           IsDefLine(text, ls[k]) =>
                               DefinitionUnit(text, definitions.items, ls, sg, k, row)
                    /\ row => Len(sg) = Cardinality({k \in 1..Len(ls) : IsDefLine(text, ls[k])})))

\* the extractor has returned two named segments for two definitions in a
\* row that both have a comment, a decorator, a body and a blank line
C14_Witness ==
    /\ pc = "identified"
    /\ text = LinesText(<<1, 2, 3, 5, 6, 1, 2, 4, 5, 6>>)
    /\ definitions.items = << Definition(<<"x">>, LinesText(<<1, 2, 3, 5, 6>>)),
                              Definition(<<"y">>, LinesText(<<1, 2, 4, 5, 6>>)) >>

\* a line with real content in its first column that is no def line
IsStatementLine(t, r) ==
    ~IsDefLine(t, r) /\ ~IsPrologueLine(t, r) /\ ~IsEpilogueLine(t, r)

\* the statement line k is an opaque segment of its own
OwnOpaqueSegment(items, ls, sg, k) ==
    \E s \in {SegmentAt(sg, ls[k].first)} :
        /\ s > 0
        /\ items[s].name = << >>
        /\ sg[s].first = ls[k].first
        /\ sg[s].last = ls[k].last

\* C15 as stated: a line with real non-indented content that is no def line
\* is never part of a definition's prologue, head or post, so it is an opaque
\* segment of its own: nothing but a def line swallows what precedes or
\* follows it.
C15_OpaqueAsStated ==
    pc = "identified" =>
        Bind(LineRanges(text), LAMBDA ls :
            Bind(SegmentRanges(definitions.items), LAMBDA sg :
                \A k \in 1..Len(ls) :
                    IsStatementLine(text, ls[k]) => OwnOpaqueSegment(definitions.items, ls, sg, k)))

\* the segment of the statement line k is opaque, starts with the first line
\* of its prologue, holds the lines after it, and holds no other statement
\* line and no def line
OpaqueUnit(t, items, ls, sg, k) ==
    \E s \in {SegmentAt(sg, ls[k].first)} :
        /\ s > 0
        /\ items[s].name = << >>
        /\ sg[s].first = ls[PrologueStart(t, ls, k)].first
        /\ sg[s].last >= ls[EpilogueEnd(t, ls, k)].last
        /\ \A j \in 1..Len(ls) :
               (j # k /\ (IsStatementLine(t, ls[j]) \/ IsDefLine(t, ls[j])))
                   => SegmentAt(sg, ls[j].first) # s

\* C15: in a text of whole lines that the extractor of the indented dialect
\* accepts, every line with real non-indented content that is no def line
\* heads one opaque segment, which swallows the maximal run of decorator and
\* non-indented comment lines before it and the indented and blank lines
\* after it, as a def line does; no segment holds two such heads.
C15_OpaqueSegments ==
    pc = "identified" =>
        Bind(LineRanges(text), LAMBDA ls :
            Bind(SegmentRanges(definitions.items), LAMBDA sg :
                \A k \in 1..Len(ls) :
                    IsStatementLine(text, ls[k]) => OpaqueUnit(text, definitions.items, ls, sg, k)))

\* the extractor has returned one opaque segment for a comment, a statement
\* and a blank line, and a second one for the statement after them
C15_Witness ==
    /\ pc = "identified"
    /\ text = LinesText(<<1, 7, 6, 7>>)
    /\ definitions.items = << Definition(<< >>, LinesText(<<1, 7, 6>>)),
                              Definition(<< >>, LinesText(<<7>>)) >>

\* the arguments of the command a(...): the words between its parentheses
\* that blanks and line breaks separate
RECURSIVE ArgumentsFrom(_, _, _)
ArgumentsFrom(t, i, word) ==
    IF i > Len(t) \/ t[i] = ")"
    THEN IF word = << >> THEN << >> ELSE << word >>
    ELSE IF t[i] \in {" ", "\n"}
    THEN (IF word = << >> THEN << >> ELSE << word >>) \o ArgumentsFrom(t, i + 1, << >>)
    ELSE ArgumentsFrom(t, i + 1, Append(word, t[i]))

Arguments(t) == ArgumentsFrom(t, 3, << >>)

\* a bare word of capital letters
IsKeyWord(w) == \A k \in 1..Len(w) : w[k] \in UpperChars

\* the first argument, in the order of the source, that is no group key; no
\* name when there is none
FirstValue(words) ==
    IF \E k \in 1..Len(words) : ~IsKeyWord(words[k])
    THEN words[CHOOSE k \in 1..Len(words) :
                   /\ ~IsKeyWord(words[k])
                   /\ \A j \in 1..(k - 1) : IsKeyWord(words[j])]
    ELSE << >>

\* C16: for a command of the flat dialect the extractor returns one segment,
\* the whole line, named by the first argument in source order that is no
\* group key (a bare word of capital letters), and opaque when there is no
\* such argument.
C16_FirstArgumentName ==
    pc = "identified" =>
        definitions.items = << Definition(FirstValue(Arguments(text)), text) >>

\* the openers still open at the end of t, innermost last, read off the
\* characters of t outside comments; << "stray" >> when a closer closes
\* nothing or the wrong opener
RECURSIVE OpenAtEnd(_, _, _, _)
OpenAtEnd(t, i, open, comment) ==
    IF i > Len(t) THEN open
    ELSE IF comment THEN OpenAtEnd(t, i + 1, open, t[i] # "\n")
    ELSE IF t[i] = "#" THEN OpenAtEnd(t, i + 1, open, TRUE)
    ELSE IF t[i] \in {"(", "[", "{"} THEN OpenAtEnd(t, i + 1, Append(open, t[i]), FALSE)
    ELSE IF t[i] \in {")", "]", "}"}
    THEN IF Len(open) > 0 /\ PythonParens[<< Last(open) >>] = << t[i] >>
         THEN OpenAtEnd(t, i + 1, Front(open), FALSE)
         ELSE << "stray" >>
    ELSE OpenAtEnd(t, i + 1, open, FALSE)

\* the text ends inside a bracket group, after well matched brackets only
Unclosed(t) ==
    \E open \in {OpenAtEnd(t, 1, << >>, FALSE)} : Len(open) > 0 /\ open # << "stray" >>

\* the closer of the innermost group open at the end of t
ExpectedCloser(t) == PythonParens[<< Last(OpenAtEnd(t, 1, << >>, FALSE)) >>]

\* C17: when a text that lexes ends inside a bracket group, the eager
\* matcher fails with the error that names the closer of that group, so it
\* builds no Parenthesized for the group, and the extractor fails with that
\* error and returns no Definition.
C17_UnclosedOpener ==
    (pc # "identify" /\ Unclosed(text) /\ iter_tokens(dialect, text).err = NoError) =>
        /\ match_parens(text, iter_tokens(dialect, text), Parens(dialect)).err
               = IncorrectlyMatched(ExpectedCloser(text))
        /\ pc = "raised"
        /\ raised = IncorrectlyMatched(ExpectedCloser(text))
        /\ definitions.items = << >>

\* the first closer of t, outside comments, that does not close the
\* innermost open group, with the openers open when it is met
RECURSIVE FirstBadCloser(_, _, _, _)
FirstBadCloser(t, i, open, comment) ==
    IF i > Len(t) THEN [found |-> FALSE, open |-> open]
    ELSE IF comment THEN FirstBadCloser(t, i + 1, open, t[i] # "\n")
    ELSE IF t[i] = "#" THEN FirstBadCloser(t, i + 1, open, TRUE)
    ELSE IF t[i] \in {"(", "[", "{"} THEN FirstBadCloser(t, i + 1, Append(open, t[i]), FALSE)
    ELSE IF t[i] \in {")", "]", "}"}
    THEN IF Len(open) > 0 /\ PythonParens[<< Last(open) >>] = << t[i] >>
         THEN FirstBadCloser(t, i + 1, Front(open), FALSE)
         ELSE [found |-> TRUE, open |-> open]
    ELSE FirstBadCloser(t, i + 1, open, FALSE)

\* the errors of the matcher
MatcherErrors ==
    {UnexpectedParen} \cup {IncorrectlyMatched(c) : c \in Closers(PythonParens)}

\* the consumer of the matcher has stopped: the input is exhausted or an
\* error was raised
StreamEnded == pc \in {"exhausted", "raised"} /\ cursor > 0

\* C18: on a text that lexes, whether or not the consumer collects the
\* groups, the matcher raises one of its two errors exactly when some closer
\* does not close the innermost open group: for the first such closer,
\* 'unexpected parenthesis' when no group is open and the error naming the
\* closer of the innermost open group otherwise.  What counts is the
\* character of the delimiter: a bracket inside a comment token is none.
C18_MismatchedCloser ==
    (StreamEnded /\ tokens.err = NoError) =>
        \E bad \in {FirstBadCloser(text, 1, << >>, FALSE)} :
            /\ bad.found =>
                   /\ pc = "raised"
                   /\ raised = IF bad.open = << >> THEN UnexpectedParen
                               ELSE IncorrectlyMatched(PythonParens[<< Last(bad.open) >>])
            /\ (pc = "raised" /\ raised \in MatcherErrors) => bad.found

\* the matcher has raised the error naming ']' for a round closer met inside
\* a square group that follows a closed round group
C18_Witness ==
    /\ pc = "raised"
    /\ text = <<"(", ")", "[", ")">>
    /\ raised = IncorrectlyMatched(<< "]" >>)
    /\ Len(yielded) = 2

\* the tokens and the opening tokens of the groups of a top-level sequence
TopLevel(items) ==
    [k \in 1..Len(items) |->
        IF items[k].kind \in {"iterparenthesized", "parenthesized"} THEN items[k].left
        ELSE items[k]]

IsPrefix(a, b) == Len(a) <= Len(b) /\ SubSeq(b, 1, Len(a)) = a

IsHandle(e) == e.kind = "iterparenthesized"

\* the consumer has collected every group before asking for the next
\* element: the only group it may hold uncollected is the one yielded last,
\* when that is fresh or has failed
OnDemand ==
    /\ \A k \in 1..(Len(yielded) - 1) : ~IsHandle(yielded[k])
    /\ (Len(yielded) > 0 /\ IsHandle(Last(yielded))) => group \in {"fresh", "failed"}

\* what the consumer holds without the groups it holds uncollected
Trees == SelectSeq(yielded, LAMBDA e : ~IsHandle(e))

\* C19: whatever groups the consumer collects, the tokens and opening tokens
\* it has received from iter_match_parens are the first top-level elements
\* of the text, all of them once it has stopped; and when it has collected
\* every group on demand it holds the first elements of what match_parens
\* yields, all of them when it has stopped, having met the same error.
C19_EagerStreamingEquivalence ==
    (pc \in {"stream", "exhausted", "raised"} /\ cursor > 0) =>
        /\ Bind(iter_match_parens(text, tokens, Parens(dialect)), LAMBDA lazy :
               /\ IsPrefix(TopLevel(yielded), TopLevel(lazy.items))
               /\ StreamEnded => TopLevel(yielded) = TopLevel(lazy.items))
        /\ OnDemand =>
               Bind(match_parens(text, tokens, Parens(dialect)), LAMBDA eager :
                   /\ IsPrefix(Trees, eager.items)
                   /\ StreamEnded => (Trees = eager.items /\ raised = eager.err))

\* the consumer has reached the end of the input having collected the first
\* of two groups and left the second to the matcher
C19_Witness ==
    /\ pc = "exhausted"
    /\ Len(yielded) = 2
    /\ yielded[1].kind = "parenthesized"
    /\ IsHandle(yielded[2])

\* the characters str.strip() removes, of those the texts hold
Whitespace == {" ", "\t", "\n"}

\* the first piece of text between matches that is not pure whitespace; 0
\* when there is none
FirstBadGap(buf, opt) ==
    LET bad == {k \in 1..Len(opt) :
                   /\ opt[k].kind = NoneKind
                   /\ \E c \in Range(TokText(buf, opt[k])) : c \notin Whitespace}
    IN IF bad = {} THEN 0 ELSE CHOOSE k \in bad : \A j \in bad : k <= j

\* the matches among the first n pieces the lexer cuts the text into
MatchedBefore(opt, n) == SelectSeq(SubSeq(opt, 1, n), LAMBDA t : t.kind # NoneKind)

\* C20: iter_tokens yields the matches of the lexer in order, skipping the
\* text between them that is pure whitespace, up to the first piece of text
\* between matches, before the first or after the last that is not: there
\* it fails with 'unexpected data while lexing', and it fails nowhere else.
\* No token without a kind reaches the matcher or its consumer, and a
\* consumer that reads to the end of the input has met no such piece.
C20_LexValidation ==
    cursor > 0 =>
        Bind(iter_opt_tokens_impl(dialect, text), LAMBDA opt :
            \E bad \in {FirstBadGap(text, opt)} :
                /\ tokens.items = MatchedBefore(opt, IF bad = 0 THEN Len(opt) ELSE bad - 1)
                /\ tokens.err = IF bad = 0 THEN NoError ELSE LexError
                /\ \A k \in 1..Len(tokens.items) : tokens.items[k].kind # NoneKind
                /\ \A k \in 1..Len(yielded) : TopLevel(yielded)[k].kind # NoneKind
                /\ pc = "exhausted" => bad = 0
                /\ (pc = "raised" /\ raised = LexError) => bad # 0)

\* the consumer has received the name, the blank after it was skipped, and
\* the lexer has failed at the character after the blank
C20_Witness ==
    /\ pc = "raised"
    /\ raised = LexError
    /\ text = <<"x", " ", "$">>
    /\ Len(tokens.items) = 1
    /\ Len(yielded) = 1

(***************************************************************************)
(* The block segmenter, read against the text it segments.  The texts of   *)
(* SpecBlocks hold no bracket and no backslash, so the k-th Line is the    *)
(* k-th physical line of the text.                                         *)
(***************************************************************************)
PhysicalLine(k) == SubSeq(text, LineRanges(text)[k].first, LineRanges(text)[k].last)

\* the literal indent of a line: the blanks and tabs it starts with
RECURSIVE LeadingBlanks(_)
LeadingBlanks(s) ==
    IF Len(s) > 0 /\ s[1] \in {" ", "\t"} THEN << s[1] >> \o LeadingBlanks(Tail(s)) ELSE << >>

\* the line has a significant token: after its indent comes something that
\* is neither the end of the line nor a comment
HasSignificant(s) ==
    /\ Len(LeadingBlanks(s)) < Len(s)
    /\ s[Len(LeadingBlanks(s)) + 1] \notin {"\n", "#"}

\* the colon field of the line is set: a colon is the last thing on it
ColonSet(s) == Len(s) >= 2 /\ s[Len(s) - 1] = ":" /\ s[Len(s)] = "\n"

\* the last of the first c lines that has a significant token, 0 if none has
LastSignificant(c) ==
    IF \E k \in 1..c : HasSignificant(PhysicalLine(k))
    THEN CHOOSE k \in 1..c : /\ HasSignificant(PhysicalLine(k))
                             /\ \A j \in (k + 1)..c : ~HasSignificant(PhysicalLine(j))
    ELSE 0

\* an indent is expected after the c lines read: the last significant one
\* of them has its colon field set
IndentOutstanding(c) ==
    LastSignificant(c) > 0 /\ ColonSet(PhysicalLine(LastSignificant(c)))

\* the indent length of the innermost open Block, 0 when no Block is open
InnermostIndent ==
    IF indent_stack = << >> THEN 0 ELSE Len(indent_stack[Len(indent_stack)].indent)

\* the segmenter is about to read a line that has a significant token
AtSignificantLine ==
    /\ pc = "blocks"
    /\ cursor < Len(lines.items)
    /\ HasSignificant(PhysicalLine(cursor + 1))

\* C21: after a line whose colon field is set, the next line that has a
\* significant token either is indented strictly deeper than the innermost
\* open Block (0 when none is open) and opens a new Block keyed by its
\* literal indent text, with that line as its first element, or makes the
\* segmenter fail with "expected indent"; and the segmenter fails when its
\* input ends while the indent is still expected.
C21_MissingIndent ==
    [][/\ (AtSignificantLine /\ IndentOutstanding(cursor)) =>
            IF Len(LeadingBlanks(PhysicalLine(cursor + 1))) > InnermostIndent
            THEN /\ pc' = "blocks"
                 /\ indent_stack' =
                        Append(indent_stack,
                               Block(LeadingBlanks(PhysicalLine(cursor + 1)),
                                     << lines.items[cursor + 1] >>))
                 /\ yielded' = yielded
            ELSE pc' = "raised" /\ raised' = ExpectedIndent
       /\ (pc = "blocks" /\ cursor = Len(lines.items) /\ IndentOutstanding(cursor)) =>
            pc' = "raised" /\ raised' = ExpectedIndentAtEOF]_vars

\* a Block was opened inside an open Block by the line after a colon
C21_Witness ==
    /\ pc = "blocks"
    /\ Len(indent_stack) = 2
    /\ Len(indent_stack[2].tokens) = 1
    /\ IndentOutstanding(cursor - 1)
    /\ Len(indent_stack[2].indent) > Len(indent_stack[1].indent)

\* how many open Blocks are indented no deeper than n
KeptBlocks(n) == Cardinality({k \in 1..Len(indent_stack) : Len(indent_stack[k].indent) <= n})

\* the open Blocks from the k-th on as one Block: each one the last element
\* of the one it was opened in
RECURSIVE Nested(_)
Nested(k) ==
    IF k >= Len(indent_stack) THEN indent_stack[k]
    ELSE [indent_stack[k] EXCEPT !.tokens = Append(@, Nested(k + 1))]

\* the Blocks that a line of indent length n closes, as the one element
\* they are handed on as
Closed(n) == IF KeptBlocks(n) < Len(indent_stack) THEN << Nested(KeptBlocks(n) + 1) >> ELSE << >>

\* C22: a line with a significant token, read while no indent is expected,
\* pops every open Block indented deeper than the line, each popped Block
\* becoming the last element of the Block below it or, at top level, being
\* yielded; then either the indent length of the line is that of the
\* innermost Block left (0 when none is left) and the line joins it, or the
\* segmenter fails with "unexpected indent": on a deeper indent that no
\* colon precedes and on a dedent to a depth no open Block has.
C22_DedentAndUnexpectedIndent ==
    [][(AtSignificantLine /\ ~IndentOutstanding(cursor)) =>
          LET n == Len(LeadingBlanks(PhysicalLine(cursor + 1)))
              keep == KeptBlocks(n)
              level == IF keep = 0 THEN 0 ELSE Len(indent_stack[keep].indent)
              line == lines.items[cursor + 1]
          IN /\ \A k \in 1..keep : Len(indent_stack[k].indent) <= n
             /\ IF n = level
                THEN /\ pc' = "blocks"
                     /\ IF keep = 0
                        THEN /\ indent_stack' = << >>
                             /\ yielded' = yielded \o Closed(n) \o << line >>
                        ELSE /\ indent_stack' =
                                    [SubSeq(indent_stack, 1, keep) EXCEPT
                                        ![keep].tokens = @ \o Closed(n) \o << line >>]
                             /\ yielded' = yielded
                ELSE /\ pc' = "raised"
                     /\ raised' = UnexpectedIndent
                     /\ (n > InnermostIndent \/ n < InnermostIndent)]_vars

\* a line at top level closed two nested Blocks at once
C22_Witness ==
    /\ pc = "blocks"
    /\ cursor = 4
    /\ indent_stack = << >>
    /\ Len(yielded) = 3
    /\ yielded[2].kind = "block"
    /\ Last(yielded[2].tokens).kind = "block"
    /\ yielded[3] = lines.items[4]

\* flatten stopped at the Lines: the Lines of a Line/Block sequence, in order
RECURSIVE FlattenLines(_)
FlattenLines(items) ==
    IF Len(items) = 0 THEN << >>
    ELSE (IF items[1].kind = "block" THEN FlattenLines(items[1].tokens) ELSE << items[1] >>)
         \o FlattenLines(Tail(items))

\* the open Blocks as they will be handed on: innermost first, each into
\* the one it was opened in
OpenBlocks == IF indent_stack = << >> THEN << >> ELSE << Nested(1) >>

\* C30: flattening what identify_python_blocks has yielded, before and
\* after fixup_end_of_block, gives the input Lines, each once and in order;
\* while it runs, what it has yielded followed by its open Blocks, flushed
\* innermost-first, holds the Lines read so far.
C30_LinesPreserved ==
    /\ pc \in {"flushed", "fixed"} =>
           /\ FlattenLines(yielded) = lines.items
           /\ flatten(yielded) = flatten(lines.items)
    /\ pc = "blocks" =>
           FlattenLines(yielded \o OpenBlocks) = SubSeq(lines.items, 1, cursor)

\* the cleanup pass has moved lines out of a Block
C30_Witness ==
    /\ pc = "fixed"
    /\ yielded # identify_python_blocks(text, lines).items
    /\ \E k \in 1..Len(yielded) : yielded[k].kind = "block"

(***************************************************************************)
(* What smart_merge of the flat dialect keeps of its two sides.            *)
(***************************************************************************)
\* out holds the elements of own, each once and in order, and between them
\* nothing but elements of foreign, in the order foreign has them
RECURSIVE Interleaves(_, _, _)
Interleaves(out, own, foreign) ==
    IF Len(out) = 0 THEN Len(own) = 0
    ELSE \/ /\ Len(own) > 0
            /\ out[1] = own[1]
            /\ Interleaves(Tail(out), Tail(own), foreign)
         \/ \E k \in 1..Len(foreign) :
                /\ out[1] = foreign[k]
                /\ Interleaves(Tail(out), own, SubSeq(foreign, k + 1, Len(foreign)))

\* smart_merge of the flat dialect has returned
CmakeReturned == pc = "returned" /\ dialect = "cmake"

\* C23: when smart_merge of the flat dialect returns, current' is the join
\* of a list that holds every definition text of current once and in
\* current's order, with nothing between them but definition texts of other
\* in other's order; and the same for other' with the sides exchanged.
C23_NoContentDropped ==
    CmakeReturned =>
        /\ result.current = Join(current_out)
        /\ result.other = Join(other_out)
        /\ Interleaves(current_out, current_texts, other_texts)
        /\ Interleaves(other_out, other_texts, current_texts)

\* each side has inserted a definition and both outputs hold both
C23_Witness ==
    /\ CmakeReturned
    /\ Len(current_out) > Len(current_texts)
    /\ Len(other_out) > Len(other_texts)
    /\ Len(current_texts) > Len(ancestor_texts)
    /\ Len(other_texts) > Len(ancestor_texts)

\* the three arguments of smart_merge parse without error
ArgumentsParse ==
    \A k \in 1..3 : ParsedArguments[k].err \in {NoError, ValueError}

\* current is the ancestor without one of its named definitions and other
\* is the ancestor
OneSidedDeletion ==
    /\ other = ancestor
    /\ ParsedArguments[1].err = NoError
    /\ \E p \in 1..Len(ParsedArguments[1].texts) :
           /\ ParsedArguments[1].names[p] # << >>
           /\ current = Join(RemoveAt(ParsedArguments[1].texts, p))

\* smart_merge of the flat dialect has returned or raised
CmakeFinished == Finished /\ dialect = "cmake"

\* C24: when current deletes one named definition of the ancestor and
\* changes nothing else, and other is the ancestor, smart_merge returns
\* ancestor' = current' = current and other' = other, so that current'
\* differs from other' and the deleted definition is in other' only.
C24_OneSidedDeletion ==
    (CmakeFinished /\ OneSidedDeletion) =>
        /\ pc = "returned"
        /\ result.ancestor = current
        /\ result.current = current
        /\ result.other = other
        /\ result.current # result.other

\* C25: when current and other are the same non-empty text and the three
\* arguments parse, smart_merge returns current' = other' = that text.
C25_IdenticalSides ==
    (CmakeFinished /\ ArgumentsParse /\ current = other /\ current # << >>) =>
        /\ pc = "returned"
        /\ result.current = current
        /\ result.other = other

\* C26: smart_merge returns a triple of texts whenever its three arguments
\* parse without error, the empty text among them.
C26_TotalOnParseableInput ==
    (Finished /\ ArgumentsParse) => pc = "returned"

(***************************************************************************)
(* The scan of identify_function_definitions over the top-level list.      *)
(***************************************************************************)
\* list(identify_python_blocks(lines)) for a text, or the failure of the
\* stages before the scan
TopLevelBlocks(buf) ==
    Bind(iter_tokens("python", buf), LAMBDA lexer_output :
    Bind(iter_match_parens(buf, lexer_output, PythonParens), LAMBDA matched_parens :
    Bind(identify_python_lines(buf, matched_parens), LAMBDA ls :
        identify_python_blocks(buf, ls))))

\* the extractor of the indented dialect has returned or raised
ScanEnded == pc \in {"identified", "raised"} /\ dialect = "python"

\* C27: on every top-level list that the block segmenter and the cleanup
\* pass produce, the scan of identify_function_definitions ends without
\* reading past the end of the list and gives every element to one segment:
\* the extractor returns, and the segments joined in order are the text.
C27_ExtractionScan ==
    (ScanEnded /\ TopLevelBlocks(text).err = NoError) =>
        /\ pc = "identified"
        /\ JoinedTexts(definitions.items) = text

(***************************************************************************)
(* The files of merge.                                                     *)
(***************************************************************************)
\* merge has called the fallback after smart_merge returned
FellBackAfterSmartMerge == Len(fallback_calls) = 1 /\ slot > 0

\* C28: when merge calls the fallback after smart_merge, the ancestor
\* argument and the other argument are two distinct files of the temporary
\* directory that hold ancestor' and other', whatever the base names of the
\* ancestor path and the other path.
C28_FallbackInputs ==
    FellBackAfterSmartMerge =>
        /\ fallback_calls[1].argv[10] # fallback_calls[1].argv[11]
        /\ fallback_calls[1].argv[10].dir = TemporaryDirectory
        /\ fallback_calls[1].argv[11].dir = TemporaryDirectory
        /\ fallback_calls[1].ancestor = Written(Encode(result.ancestor))
        /\ fallback_calls[1].other = Written(Encode(result.other))

\* the files a step changes: another writer, or other bytes of the same one
Changed ==
    {p \in AllPaths : IF files'[p].writer # files[p].writer THEN TRUE
                      ELSE files'[p] # files[p]}

\* C29: no step of merge changes the file at the ancestor path or at the
\* other path; a step changes only the file at the current path and files
\* of the temporary directory; what changes in the temporary directory is
\* merge's own writing or removing; and before smart_merge is entered (the
\* guard bypass) merge writes nothing: the current file changes only by what
\* git merge-file leaves in it.
C29_FrameOfMerge ==
    [][/\ \A p \in Changed :
              /\ p \notin {args.ancestor, args.other}
              /\ p = args.current \/ p.dir = TemporaryDirectory
              /\ p.dir = TemporaryDirectory =>
                     files'[p] = NoFile \/ files'[p].writer = "merge"
              /\ p = args.current => files'[p].writer \in {"merge", "git merge-file"}
       /\ pc \in {"merge", "read"} =>
              \A p \in Changed : files'[p].writer = "git merge-file"]_vars

\* merge has returned from the fallback after smart_merge: the ancestor file
\* and the other file are as they were given, the current file is what git
\* merge-file left
C29_Witness ==
    /\ pc = "done"
    /\ FellBackAfterSmartMerge
    /\ files[args.ancestor].writer = "input"
    /\ files[args.other].writer = "input"
    /\ files[args.current].writer = "git merge-file"

(***************************************************************************)
(* The trees the block segmenter and the cleanup pass leave.               *)
(***************************************************************************)
\* the Blocks of a Line/Block sequence, at every depth
RECURSIVE AllBlocks(_)
AllBlocks(items) ==
    UNION {IF items[k].kind = "block" THEN {items[k]} \cup AllBlocks(items[k].tokens) ELSE {}
           : k \in 1..Len(items)}

\* a Line without a significant token whose indent is absent or shorter
\* than the indent given
UnderIndentedBlank(e, indent) ==
    /\ e.kind = "line"
    /\ e.first_non_blank.kind = "none"
    /\ e.indent.kind = "none" \/ e.indent.end.index - e.indent.start.index < Len(indent)

\* the Block begins with the line that opened it: a Line with a significant
\* token, indented by the text the Block is keyed by
BeginsWithOpener(b) ==
    /\ Len(b.tokens) > 0
    /\ b.tokens[1].kind = "line"
    /\ b.tokens[1].first_non_blank.kind # "none"
    /\ b.tokens[1].indent.kind # "none"
    /\ Slice(text, b.tokens[1].indent.start.index, b.tokens[1].indent.end.index) = b.indent

\* fixed is what is left of the Block before: the same opener and indent,
\* its Lines a prefix of the Lines of before, and every Line that left it
\* one without a significant token
Trimmed(fixed, before) ==
    /\ fixed.indent = before.indent
    /\ IsPrefix(FlattenLines(fixed.tokens), FlattenLines(before.tokens))
    /\ \A k \in (Len(FlattenLines(fixed.tokens)) + 1)..Len(FlattenLines(before.tokens)) :
           FlattenLines(before.tokens)[k].first_non_blank.kind = "none"

\* C31: after fixup_end_of_block no Block, at any depth, ends with a Line
\* that has no significant token and whose indent is absent or shorter than
\* the Block's; every Block is non-empty and begins with the line that
\* opened it; and each Block is the Block the segmenter built less the
\* trailing lines moved out of it, which follow it directly in the order of
\* the Lines, that order being unchanged.
C31_CleanupPostcondition ==
    pc = "fixed" =>
        \E before \in {AllBlocks(identify_python_blocks(text, lines).items)} :
            /\ \A b \in AllBlocks(yielded) :
                   /\ BeginsWithOpener(b)
                   /\ ~UnderIndentedBlank(b.tokens[Len(b.tokens)], b.indent)
                   /\ \E o \in before :
                          /\ o.tokens[1] = b.tokens[1]
                          /\ Trimmed(b, o)
            /\ Cardinality(AllBlocks(yielded)) = Cardinality(before)
            /\ FlattenLines(yielded) = lines.items

\* the cleanup pass has moved a blank line out of a Block nested in a Block
\* and on out of that Block
C31_Witness ==
    /\ pc = "fixed"
    /\ Len(yielded) = 3
    /\ yielded[2].kind = "block"
    /\ yielded[2].tokens[Len(yielded[2].tokens)].kind = "block"
    /\ yielded[3].kind = "line"
    /\ yielded[3].first_non_blank.kind = "none"

\* the segmenter is about to read a line without a significant token: a
\* blank line or a line that holds only a comment
AtBlankLine ==
    /\ pc = "blocks"
    /\ cursor < Len(lines.items)
    /\ ~HasSignificant(PhysicalLine(cursor + 1))

\* C32: a line without a significant token raises no indentation error,
\* pushes and pops no Block and leaves the 'expect indent' flag as it is; it
\* is appended to the innermost open Block, or yielded at top level when no
\* Block is open.  So the flag is set exactly when the last significant
\* line read has its colon set, however many blank or comment lines
\* followed it.
C32_BlankLinesBypass ==
    [][/\ AtBlankLine =>
            /\ pc' = "blocks"
            /\ raised' = raised
            /\ expect_indent' = expect_indent
            /\ IF indent_stack = << >>
               THEN /\ indent_stack' = << >>
                    /\ yielded' = Append(yielded, lines.items[cursor + 1])
               ELSE /\ indent_stack' =
                           [indent_stack EXCEPT ![Len(indent_stack)].tokens =
                                Append(@, lines.items[cursor + 1])]
                    /\ yielded' = yielded
       /\ pc = "blocks" => (expect_indent.kind # "none" <=> IndentOutstanding(cursor))]_vars

\* a blank line has joined the innermost open Block while the indent after
\* a colon is still expected
C32_Witness ==
    /\ pc = "blocks"
    /\ cursor >= 2
    /\ ~HasSignificant(PhysicalLine(cursor))
    /\ expect_indent.kind # "none"
    /\ indent_stack # << >>
    /\ indent_stack[Len(indent_stack)].tokens[Len(indent_stack[Len(indent_stack)].tokens)]
           = lines.items[cursor]

\* every Block that is an element of a Block of the sequence, at any depth,
\* is indented strictly deeper than the Block it is in, and the Blocks of
\* the sequence itself strictly deeper than the indent given
RECURSIVE DeeperThan(_, _)
DeeperThan(items, n) ==
    \A k \in 1..Len(items) :
        items[k].kind = "block" =>
            /\ Len(items[k].indent) > n
            /\ DeeperThan(items[k].tokens, Len(items[k].indent))

\* C33: at every point of the block segmentation the indents of the open
\* Blocks are strictly longer from the bottom of the stack to its top and
\* all longer than 0; and in every tree produced, before and after the
\* cleanup pass, a Block's indent is strictly longer than its parent's.
C33_IndentStack ==
    pc \in {"blocks", "raised", "flushed", "fixed"} =>
        /\ \A k \in 1..Len(indent_stack) :
               /\ Len(indent_stack[k].indent) > 0
               /\ k > 1 => Len(indent_stack[k].indent) > Len(indent_stack[k - 1].indent)
               /\ DeeperThan(indent_stack[k].tokens, Len(indent_stack[k].indent))
        /\ DeeperThan(yielded, 0)

\* the whole input is read and two Blocks are open, the inner one holding
\* two lines
C33_Witness ==
    /\ pc = "blocks"
    /\ cursor = Len(lines.items)
    /\ Len(indent_stack) = 2
    /\ Len(indent_stack[2].tokens) = 2

(***************************************************************************)
(* The line segmenter of the indented dialect.                             *)
(***************************************************************************)
\* the stepwise segmenter and identify_python_lines give the same Lines and
\* the same error
SegmenterAgrees ==
    /\ pc = "segmented" =>
           identify_python_lines(text, tokens) = Stream(yielded, NoError)
    /\ (pc = "raised" /\ cursor <= Len(tokens.items)) =>
           identify_python_lines(text, tokens) = Stream(yielded, raised)

\* the last element of the line under construction that is no comment
RECURSIVE LastButComments(_)
LastButComments(line) ==
    IF Len(line) = 0 THEN NoToken
    ELSE IF Last(line).kind = "comment" THEN LastButComments(Front(line))
    ELSE Last(line)

\* the segmenter is between two elements, the line under construction ends
\* with a backslash
AfterBackslash ==
    /\ pc = "lines"
    /\ Len(line_state.line) > 0
    /\ Last(line_state.line).kind = "backslash"

\* the same, comments after the backslash left aside
BackslashWaits ==
    /\ pc = "lines"
    /\ LastButComments(line_state.line).kind = "backslash"

\* the element read joins the line under construction and no Line is yielded
Continues ==
    /\ pc' = "lines"
    /\ yielded' = yielded
    /\ line_state'.line = Append(line_state.line, tokens.items[cursor + 1])

\* the segmenter fails: with the message for a backslash at the end of its
\* input when that input ended without an error of its own
FailsAtEnd ==
    /\ pc' = "raised"
    /\ tokens.err = NoError => raised' = EOFAfterBackslash

\* C34 as stated: a newline directly after a backslash joins the line, which
\* is not ended; every other element directly after a backslash makes the
\* segmenter fail with "expected newline after backslash", and so does the
\* end of the input with "unexpected EOF after backslash".
C34_AnyOtherTokenFails ==
    [][AfterBackslash =>
           IF cursor < Len(tokens.items)
           THEN IF tokens.items[cursor + 1].kind = "newline"
                THEN Continues
                ELSE pc' = "raised" /\ raised' = ExpectedNewline
           ELSE FailsAtEnd]_vars

\* C34: a newline after a backslash, directly or after comments only, joins
\* the line, which is not ended; a comment after a backslash joins the line
\* and leaves the backslash waiting; every other element after a backslash
\* makes the segmenter fail with "expected newline after backslash", and the
\* end of the input while a backslash waits with "unexpected EOF after
\* backslash".
C34_BackslashContinuation ==
    [][BackslashWaits =>
           IF cursor < Len(tokens.items)
           THEN IF tokens.items[cursor + 1].kind \in {"newline", "comment"}
                THEN Continues
                ELSE pc' = "raised" /\ raised' = ExpectedNewline
           ELSE FailsAtEnd]_vars

\* a line was continued over a newline that a backslash and a comment
\* precede
C34_Witness ==
    /\ pc = "lines"
    /\ yielded = << >>
    /\ Len(line_state.line) >= 3
    /\ line_state.line[Len(line_state.line)].kind = "newline"
    /\ line_state.line[Len(line_state.line) - 1].kind = "comment"
    /\ line_state.line[Len(line_state.line) - 2].kind = "backslash"

\* the last element of the Line, its comments and the newline that ends it
\* left aside
LastSignificantToken(l) ==
    LET IsSignificant(e) == e.kind # "comment" /\ e # l.newline
        significant == SelectSeq(l.tokens, IsSignificant)
    IN IF Len(significant) = 0 THEN NoToken ELSE Last(significant)

\* C35: for every Line the line segmenter of the indented dialect yields,
\* colon is set if and only if the last element of the Line, comments and
\* the terminating newline ignored, is a token whose text is exactly ":";
\* and then colon is that token.
C35_ColonField ==
    pc \in {"lines", "raised", "segmented"} =>
        \A k \in 1..Len(yielded) :
            \E last \in {LastSignificantToken(yielded[k])} :
                IF IsToken(last) /\ TokText(text, last) = << ":" >>
                THEN yielded[k].colon = last
                ELSE yielded[k].colon = NoToken

\* a Line was yielded with its colon set, a comment after the colon
C35_Witness ==
    /\ pc = "segmented"
    /\ Len(yielded) = 1
    /\ yielded[1].colon # NoToken
    /\ \E k \in 1..Len(yielded[1].tokens) :
           /\ yielded[1].tokens[k].kind = "comment"
           /\ yielded[1].tokens[k].start.index > yielded[1].colon.start.index

(***************************************************************************)
(* One lexing pass, read against the text.                                 *)
(***************************************************************************)
\* the stepwise pass and the operators of the tokenizer agree
LexerAgrees ==
    /\ pc = "lex" => IsPrefix(yielded, iter_opt_tokens_impl(dialect, text))
    /\ pc = "lexed" => /\ yielded = iter_opt_tokens_impl(dialect, text)
                       /\ tokens = iter_tokens(dialect, text)
    /\ pc = "raised" => /\ IsPrefix(yielded, iter_opt_tokens_impl(dialect, text))
                        /\ tokens = iter_tokens(dialect, text)

\* the spans of the sequence lie end to start from offset 0 on, none before
\* its start and none beyond the buffer
Tiles(opt) ==
    /\ Len(opt) > 0 => opt[1].start.index = 0
    /\ \A k \in 2..Len(opt) : opt[k].start.index = opt[k - 1].end.index
    /\ \A k \in 1..Len(opt) :
           opt[k].start.index <= opt[k].end.index /\ opt[k].end.index <= Len(text)

\* the sequence reaches to the end of the buffer
Covers(opt) == IF Len(opt) = 0 THEN Len(text) = 0 ELSE Last(opt).end.index = Len(text)

\* C36: in a lexing pass started at offset 0 the first OptToken starts at
\* offset 0, every OptToken starts at the offset where the one before it
\* ended, and the last one of the whole pass ends at the buffer length;
\* every Token emitted lies within the buffer, no two of them overlap, and
\* between two consecutive ones there is whitespace only.
C36_SpansTile ==
    pc \in {"lex", "lexed", "raised"} =>
        /\ Tiles(yielded)
        /\ pc = "lexed" => Covers(yielded)
        /\ pc = "raised" =>
               \E rest \in {iter_opt_tokens_impl(dialect, text)} :
                   IsPrefix(yielded, rest) /\ Tiles(rest) /\ Covers(rest)
        /\ \A k \in 1..Len(tokens.items) :
               /\ 0 <= tokens.items[k].start.index
               /\ tokens.items[k].start.index <= tokens.items[k].end.index
               /\ tokens.items[k].end.index <= Len(text)
        /\ \A k \in 2..Len(tokens.items) :
               /\ tokens.items[k - 1].end.index <= tokens.items[k].start.index
               /\ \A c \in tokens.items[k - 1].end.index..(tokens.items[k].start.index - 1) :
                      At(text, c) \in Whitespace

\* the pass has ended, and whitespace that was skipped lies between two of
\* the Tokens emitted
C36_Witness ==
    /\ pc = "lexed"
    /\ Len(tokens.items) >= 2
    /\ \E k \in 2..Len(tokens.items) :
           tokens.items[k - 1].end.index < tokens.items[k].start.index

\* the offsets of the newlines of the text before offset i
NewlinesBefore(i) == {k \in 0..(i - 1) : At(text, k) = "\n"}

\* the offset where the physical line of offset i starts
LineStart(i) ==
    IF NewlinesBefore(i) = {} THEN 0
    ELSE 1 + CHOOSE k \in NewlinesBefore(i) : \A o \in NewlinesBefore(i) : o <= k

\* the characters of a slice after its last newline
RECURSIVE AfterLastNewline(_)
AfterLastNewline(slice) ==
    IF Len(slice) = 0 \/ Last(slice) = "\n" THEN << >>
    ELSE Append(AfterLastNewline(Front(slice)), Last(slice))

\* the position tells where the offset lies in the text
Tracks(pos) ==
    /\ pos.index - pos.column = LineStart(pos.index)
    /\ pos.lineno = 1 + Cardinality(NewlinesBefore(pos.index))
    /\ get_line_from_position(text, pos)
           = SelectSeq(SubSeq(text, LineStart(pos.index) + 1,
                              LineStart(pos.index) + Len(get_line_from_position(text, pos))),
                       LAMBDA c : c # "\n")
    /\ At(text, LineStart(pos.index) + Len(get_line_from_position(text, pos)))
           \in {"\n", NoChar}

\* C37: the end of every span is its start advanced over the slice between
\* them, which is not empty: the offset grows by the length of the slice;
\* when the slice holds no newline the line number stays and the column
\* grows by that length, otherwise the line number grows by the number of
\* newlines of the slice and the column is the number of characters after
\* the last of them.  So for every OptToken lexed from Position(0, 1, 0)
\* offset minus column is the offset where its physical line starts, the
\* line number is 1 plus the number of newlines before it, and
\* get_line_from_position gives that physical line.
C37_PositionTracking ==
    pc \in {"lex", "lexed", "raised"} =>
        \A k \in 1..Len(yielded) :
            \E start \in {yielded[k].start} : \E end \in {yielded[k].end} :
            \E slice \in {SubSeq(text, (IF k = 1 THEN 0 ELSE yielded[k - 1].end.index) + 1,
                                 IF k = Len(yielded) THEN cursor ELSE yielded[k + 1].start.index)} :
            \E nls \in {Cardinality({c \in 1..Len(slice) : slice[c] = "\n"})} :
                /\ Len(slice) > 0
                /\ end.index = start.index + Len(slice)
                /\ IF nls = 0
                   THEN end.lineno = start.lineno /\ end.column = start.column + Len(slice)
                   ELSE /\ end.lineno = start.lineno + nls
                        /\ end.column = Len(AfterLastNewline(slice))
                /\ Tracks(start)
                /\ Tracks(end)

\* a token that holds a newline was lexed: it starts on line 1 and ends on
\* line 2 after the first column
C37_Witness ==
    /\ pc = "lexed"
    /\ \E k \in 1..Len(yielded) :
           /\ yielded[k].kind # NoneKind
           /\ yielded[k].start.lineno = 1
           /\ yielded[k].end.lineno = 2
           /\ yielded[k].end.column > 0

====
